---- MODULE Spec2Model ----
(***************************************************************************)
(* Model of the "Tables And Elements" tab of Tentacles                     *)
(* (src/Tabs/tab_tables_elements.py, class PowerQueryTab) and of the       *)
(* metadata loader it sits on (src/common_functions.py).                   *)
(*                                                                         *)
(* Strings that can hold "/" (folder names, group paths) are sequences of  *)
(* atoms: the string is the atoms joined by "/".  The empty sequence is    *)
(* Python's None / empty string, as in "'/'.join(parts) if parts else      *)
(* None".                                                                  *)
(***************************************************************************)
EXTENDS Integers, Sequences, FiniteSets, TLC

\* ---------------------------------------------------------------- bounds
MaxFolders == 3
MaxPathLen == 3
MaxMeasures == 3
MaxMeasureFolders == 2
MaxSteps == 4

\* ------------------------------------------------------------- constants
ITEM_FOLDER == "folder"
ITEM_TABLE == "table"
ITEM_COLUMN == "column"
ITEM_MEASURE_FOLDER == "measure_folder"
ITEM_MEASURE == "measure"
OTHER_QUERIES_NAME == "Other Queries"
NoneKind == "none"
NoNode == -1
Inf == 1000

ALLOWED_CHILDREN(k) ==
    CASE k = ITEM_FOLDER -> {ITEM_FOLDER, ITEM_TABLE}
      [] k = ITEM_TABLE -> {ITEM_COLUMN, ITEM_MEASURE_FOLDER, ITEM_MEASURE}
      [] k = ITEM_MEASURE_FOLDER -> {ITEM_MEASURE_FOLDER, ITEM_MEASURE}
      [] OTHER -> {}

ALLOWED_PARENTS(k) ==
    CASE k = ITEM_FOLDER -> {NoneKind, ITEM_FOLDER}
      [] k = ITEM_TABLE -> {ITEM_FOLDER}
      [] k = ITEM_COLUMN -> {ITEM_TABLE}
      [] k = ITEM_MEASURE_FOLDER -> {ITEM_TABLE, ITEM_MEASURE_FOLDER}
      [] k = ITEM_MEASURE -> {ITEM_TABLE, ITEM_MEASURE_FOLDER}
      [] OTHER -> {}

\* ------------------------------------------------------ the project files
\* The tables of the project on disk, in case-insensitive alphabetical order
\* of their names (the order str.lower sorts them in).
TableNames == <<"Calc", "Dates", "Sales", "Sales [EU]">>
TableSet == {TableNames[i] : i \in 1..Len(TableNames)}
TableRank(t) == CHOOSE i \in 1..Len(TableNames) : TableNames[i] = t

\* ------------------------------------------------------- sequence helpers
Range(s) == {s[i] : i \in 1..Len(s)}
IndexOf(s, x) == CHOOSE i \in 1..Len(s) : s[i] = x
SeqRemove(s, x) == SelectSeq(s, LAMBDA y : y # x)
\* list.insert(i, x) with a 0-based index i <= len
InsertAt(s, i, x) == SubSeq(s, 1, i) \o <<x>> \o SubSeq(s, i + 1, Len(s))
Min(S) == CHOOSE x \in S : \A y \in S : x <= y
Max(S) == CHOOSE x \in S : \A y \in S : x >= y
Last(s) == s[Len(s)]
IsPrefix(p, q) == Len(p) <= Len(q) /\ SubSeq(q, 1, Len(p)) = p

\* sorted(s, key=k): stable, k a function from the elements to integers
RECURSIVE SortByKey(_, _)
SortByKey(s, k) ==
    IF s = <<>> THEN <<>>
    ELSE LET m == Min({k[s[i]] : i \in 1..Len(s)})
             i == Min({j \in 1..Len(s) : k[s[j]] = m})
         IN <<s[i]>> \o SortByKey(SubSeq(s, 1, i - 1) \o SubSeq(s, i + 1, Len(s)), k)

\* every ordering of the set S that is non-decreasing in the key k: what
\* sorted(S, key=k) can return when S is a Python set, whose iteration order
\* is arbitrary and only decides ties
SortedOrders(S, k) ==
    {s \in [1..Cardinality(S) -> S] :
        /\ \A i, j \in 1..Cardinality(S) : i # j => s[i] # s[j]
        /\ \A i, j \in 1..Cardinality(S) : i < j => k[s[i]] <= k[s[j]]}

\* ------------------------------------------------------------------ names
\* Atoms a name can be made of, in the order of their lower-cased text.
AtomsSorted == <<"a", "A", "Amount", "B", "Calc", "Dates", "Folder",
                 "New Folder", "New Folder 1", "New Folder 2",
                 "New Folder 3", "New Folder 4", "New Folder 5",
                 "New Measure", "New Measure 1", "New Measure 2",
                 "New Measure 3", "Other Queries", "Sales", "Sales [EU]", "Year's end">>
AtomRank(a) == CHOOSE i \in 1..Len(AtomsSorted) : AtomsSorted[i] = a
NewFolderNames == <<"New Folder", "New Folder 1", "New Folder 2",
                    "New Folder 3", "New Folder 4", "New Folder 5">>
NewMeasureNames == <<"New Measure", "New Measure 1", "New Measure 2", "New Measure 3">>
\* a is a proper prefix of b as text and the next character of b is a space,
\* which sorts before "/"
AtomProperPrefix(a, b) ==
    \/ a = "New Folder" /\ b \in Range(NewFolderNames) \ {"New Folder"}
    \/ a = "New Measure" /\ b \in Range(NewMeasureNames) \ {"New Measure"}
    \/ a = "Sales" /\ b = "Sales [EU]"

\* str.lower(): "A" and "a" are the two names of the model that differ in
\* case only; every other atom stands for its own lower-cased text
LowerAtom(a) == IF a = "A" THEN "a" ELSE a
lower(x) == [i \in 1..Len(x) |-> LowerAtom(x[i])]

\* x.lower() < y.lower() for the strings x and y (atoms joined by "/")
RECURSIVE StrLess(_, _)
StrLess(x, y) ==
    IF y = <<>> THEN FALSE
    ELSE IF x = <<>> THEN TRUE
    ELSE LET a == LowerAtom(Head(x))
             b == LowerAtom(Head(y))
         IN IF a = b THEN StrLess(Tail(x), Tail(y))
            ELSE IF AtomProperPrefix(a, b) THEN Len(x) = 1
            ELSE IF AtomProperPrefix(b, a) THEN Len(y) # 1
            ELSE AtomRank(a) < AtomRank(b)

\* ------------------------------------------------------------ tree nodes
\* QTreeWidgetItems.  One item exists per table and per column of a loaded
\* project; folder, measure-folder and measure items come from bounded pools.
OtherNode == 0
FolderNodes == 1..MaxFolders
TableNode(t) == 100 + TableRank(t)
TableNodes == {TableNode(t) : t \in TableSet}
\* columns of the tables on disk: Sales has the column Amount
ColumnTables == {"Sales"}
ColumnNode(t) == 200 + TableRank(t)
ColumnNodes == {ColumnNode(t) : t \in ColumnTables}
MeasureFolderNodes == {300 + i : i \in 1..MaxMeasureFolders}
MeasureNodes == {400 + i : i \in 1..MaxMeasures}
Nodes == {OtherNode} \cup FolderNodes \cup TableNodes \cup ColumnNodes
            \cup MeasureFolderNodes \cup MeasureNodes

\* item.data(0, TYPE_ROLE)
Kind(n) ==
    IF n < 0 THEN NoneKind
    ELSE IF n < 100 THEN ITEM_FOLDER
    ELSE IF n < 200 THEN ITEM_TABLE
    ELSE IF n < 300 THEN ITEM_COLUMN
    ELSE IF n < 400 THEN ITEM_MEASURE_FOLDER
    ELSE ITEM_MEASURE

\* A tree is a record: top (top-level items in order), kids (children in
\* order), text (column-0 text), key (KEY_ROLE), user (UserRole table name).
EmptyTree ==
    [top |-> <<>>,
     kids |-> [n \in Nodes |-> <<>>],
     text |-> [n \in Nodes |-> <<>>],
     key |-> [n \in Nodes |-> <<>>],
     user |-> [n \in Nodes |-> ""]]

RECURSIVE Subtree(_, _)
Subtree(tr, n) == {n} \cup UNION {Subtree(tr, c) : c \in Range(tr.kids[n])}
TreeNodes(tr) == UNION {Subtree(tr, n) : n \in Range(tr.top)}

\* item.parent(); NoNode for a top-level (or detached) item
Pick(S) == IF S = {} THEN NoNode ELSE CHOOSE x \in S : TRUE
ParentOf(tr, n) == Pick({p \in Nodes : n \in Range(tr.kids[p])})

\* data(0, KEY_ROLE) is None; a measure item's key is its measure id
KeyIsNone(tr, n) == Kind(n) # ITEM_MEASURE /\ tr.key[n] = <<>>

SetKids(tr, p, s) == [tr EXCEPT !.kids[p] = s]

\* parent.removeChild(item) / takeTopLevelItem(index)
DetachFrom(tr, n, p) ==
    IF p # NoNode THEN SetKids(tr, p, SeqRemove(tr.kids[p], n))
    ELSE [tr EXCEPT !.top = SeqRemove(tr.top, n)]
_detach(tr, n) == DetachFrom(tr, n, ParentOf(tr, n))

addChild(tr, p, n) == SetKids(tr, p, Append(tr.kids[p], n))
addTopLevelItem(tr, n) == [tr EXCEPT !.top = Append(tr.top, n)]

\* Items that are no longer in the tree are garbage: their fields are reset
\* so that equal trees are equal states.
DropGarbage(tr) ==
    LET live == TreeNodes(tr)
    IN [top |-> tr.top,
        kids |-> [n \in Nodes |-> IF n \in live THEN tr.kids[n] ELSE <<>>],
        text |-> [n \in Nodes |-> IF n \in live THEN tr.text[n] ELSE <<>>],
        key |-> [n \in Nodes |-> IF n \in live THEN tr.key[n] ELSE <<>>],
        user |-> [n \in Nodes |-> IF n \in live THEN tr.user[n] ELSE ""]]

\* rank of each item of S by its lower-cased text
TextKey(tr, S) ==
    [n \in S |-> Cardinality({m \in S : StrLess(tr.text[m], tr.text[n])})]

\* sorted(items, key=lambda item: item.text(0).lower())
SortedByText(tr, s) == SortByKey(s, TextKey(tr, Range(s)))

\* the children of p whose type is (is not) one of kinds, in order
KidsOfKind(tr, p, kinds) == SelectSeq(tr.kids[p], LAMBDA c : Kind(c) \in kinds)
KidsNotOfKind(tr, p, kinds) == SelectSeq(tr.kids[p], LAMBDA c : Kind(c) \notin kinds)

find_other_queries_item(tr) ==
    LET c == {i \in 1..Len(tr.top) : KeyIsNone(tr, tr.top[i])}
    IN IF c = {} THEN NoNode ELSE tr.top[Min(c)]

\* take the item out of the top level and add it again at the end
MoveToEnd(tr, other) ==
    IF other = NoNode \/ Last(tr.top) = other THEN tr
    ELSE [tr EXCEPT !.top = Append(SeqRemove(tr.top, other), other)]

\* the Other Queries item is left where it is
ensure_other_queries_last_mutC8(tr) == tr

ensure_other_queries_last(tr) == MoveToEnd(tr, find_other_queries_item(tr))

\* _create_folder_item(None, OTHER_QUERIES_NAME) added at top level
ensure_other_queries_folder(tr) ==
    IF find_other_queries_item(tr) # NoNode THEN tr
    ELSE ensure_other_queries_last(
            addTopLevelItem(
                [tr EXCEPT !.text[OtherNode] = <<OTHER_QUERIES_NAME>>,
                           !.key[OtherNode] = <<>>],
                OtherNode))

PlaceColumns(tr, t, cols) ==
    IF cols = <<>> THEN tr
    ELSE SetKids(tr, t, KidsNotOfKind(tr, t, {ITEM_COLUMN}) \o SortedByText(tr, cols))

ensure_columns_sorted(tr, t) == PlaceColumns(tr, t, KidsOfKind(tr, t, {ITEM_COLUMN}))

Reverse(s) == [i \in 1..Len(s) |-> s[Len(s) + 1 - i]]

\* the children of p of one type, taken out last to first, sorted by name
TakenSorted(tr, p, kind) ==
    SortedByText(tr, SelectSeq(Reverse(tr.kids[p]), LAMBDA c : Kind(c) = kind))

\* folders first, then measures, each sorted by name; items of other kinds
\* keep their place in front; then the same inside every folder
RECURSIVE ensure_measure_items_sorted(_, _)
RECURSIVE SortMeasureFolders(_, _)
SortMeasureFolders(tr, fs) ==
    IF fs = <<>> THEN tr
    ELSE SortMeasureFolders(ensure_measure_items_sorted(tr, Head(fs)), Tail(fs))
PlaceMeasureItems(tr, p, folders, measures) ==
    SortMeasureFolders(
        SetKids(tr, p, KidsNotOfKind(tr, p, {ITEM_MEASURE_FOLDER, ITEM_MEASURE})
                         \o folders \o measures),
        folders)
ensure_measure_items_sorted(tr, p) ==
    IF p = NoNode THEN tr
    ELSE PlaceMeasureItems(tr, p, TakenSorted(tr, p, ITEM_MEASURE_FOLDER),
                           TakenSorted(tr, p, ITEM_MEASURE))

RECURSIVE SortColumnsOf(_, _)
SortColumnsOf(tr, ts) ==
    IF ts = <<>> THEN tr
    ELSE SortColumnsOf(ensure_columns_sorted(tr, Head(ts)), Tail(ts))

PlaceTables(tr, f, sorted) ==
    SortColumnsOf(SetKids(tr, f, KidsNotOfKind(tr, f, {ITEM_TABLE}) \o sorted), sorted)

sort_tables_in_folder(tr, f) ==
    IF KidsOfKind(tr, f, {ITEM_TABLE}) = <<>> THEN tr
    ELSE PlaceTables(tr, f, SortedByText(tr, KidsOfKind(tr, f, {ITEM_TABLE})))

RECURSIVE _table_item_for(_, _)
_table_item_for(tr, n) ==
    IF n = NoNode \/ Kind(n) = ITEM_TABLE THEN n
    ELSE _table_item_for(tr, ParentOf(tr, n))

\* pre-order list of the items below the items of s
RECURSIVE Preorder(_, _)
Preorder(tr, s) ==
    IF s = <<>> THEN <<>>
    ELSE <<Head(s)>> \o Preorder(tr, tr.kids[Head(s)]) \o Preorder(tr, Tail(s))

\* every table item of the tree, in pre-order
TableItems(tr) == SelectSeq(Preorder(tr, tr.top), LAMBDA n : Kind(n) = ITEM_TABLE)

FirstNamed(tr, tables, table_name) ==
    LET hits == {i \in 1..Len(tables) : tr.user[tables[i]] = table_name}
    IN IF hits = {} THEN NoNode ELSE tables[Min(hits)]

_find_table_item(tr, table_name) ==
    IF table_name = "" THEN NoNode ELSE FirstNamed(tr, TableItems(tr), table_name)

\* the UserRole a measure folder takes from its table item, if it has one
UserFrom(tr, f, t) == IF t # NoNode THEN tr.user[t] ELSE tr.user[f]

RECURSIVE _reset_measure_folder_paths(_, _, _)
RECURSIVE ResetChildFolders(_, _, _)
ResetChildFolders(tr, cs, canonical) ==
    IF cs = <<>> THEN tr
    ELSE ResetChildFolders(
            IF Kind(Head(cs)) = ITEM_MEASURE_FOLDER
            THEN _reset_measure_folder_paths(tr, Head(cs), canonical)
            ELSE tr,
            Tail(cs), canonical)
_reset_measure_folder_paths(tr, f, parent_path) ==
    ResetChildFolders(
        [tr EXCEPT !.key[f] = parent_path \o tr.text[f],
                   !.user[f] = UserFrom(tr, f, _table_item_for(tr, f))],
        tr.kids[f], parent_path \o tr.text[f])

\* ------------------------------------------------- _collect_tree_layout
\* parts a folder hands to its children: nothing below the Other Queries
\* item (KEY_ROLE None), else the parent's parts plus the folder's own name
RECURSIVE WorkingParts(_, _)
\* the Other Queries item hands down its name like any other folder
WorkingParts_mutC9(tr, f) ==
    IF f = NoNode THEN <<>>
    ELSE WorkingParts(tr, ParentOf(tr, f)) \o tr.text[f]

WorkingParts(tr, f) ==
    IF f = NoNode \/ KeyIsNone(tr, f) THEN <<>>
    ELSE WorkingParts(tr, ParentOf(tr, f)) \o tr.text[f]

\* the folders and tables traverse_folder visits, in visiting order
RECURSIVE Walk(_, _)
Walk(tr, s) ==
    IF s = <<>> THEN <<>>
    ELSE (IF Kind(Head(s)) = ITEM_FOLDER THEN <<Head(s)>> \o Walk(tr, tr.kids[Head(s)])
          ELSE IF Kind(Head(s)) = ITEM_TABLE THEN <<Head(s)>>
          ELSE <<>>) \o Walk(tr, Tail(s))

\* the name a table item stands for: UserRole, else its text
TableNameOf(tr, t) == tr.user[t]

\* the table_type of a table is not looked at
IsCalculated_mutC5(td, name) == FALSE

IsCalculated(td, name) ==
    name \in DOMAIN td /\ td[name].table_type = "calculated"

\* group_path of a visited table: the parts its folder hands down
GroupOf(tr, t) == WorkingParts(tr, ParentOf(tr, t))

\* the visited table item that stands for name (the last one wins)
ItemNamed(tr, tables, name) ==
    tables[Max({i \in 1..Len(tables) : TableNameOf(tr, tables[i]) = name})]

LayoutWith(tr, td, folders, tables, named, ordered) ==
    [folder_paths |-> [i \in 1..Len(named) |-> WorkingParts(tr, named[i])],
     table_order |-> [i \in 1..Len(ordered) |-> TableNameOf(tr, ordered[i])],
     table_seq |-> [i \in 1..Len(tables) |-> TableNameOf(tr, tables[i])],
     table_groups |-> [name \in {TableNameOf(tr, t) : t \in Range(tables)} |->
                         GroupOf(tr, ItemNamed(tr, tables, name))],
     tree |-> SortColumnsOf(
                [tr EXCEPT !.key = [n \in Nodes |->
                                      IF n \in Range(folders) THEN WorkingParts(tr, n)
                                      ELSE IF n \in Range(tables) THEN GroupOf(tr, n)
                                      ELSE @[n]],
                           !.user = [n \in Nodes |->
                                      IF Kind(n) = ITEM_COLUMN /\ ParentOf(tr, n) \in Range(tables)
                                      THEN TableNameOf(tr, ParentOf(tr, n))
                                      ELSE @[n]]],
                tables),
     tables_data |-> [name \in DOMAIN td |->
                        IF \E t \in Range(tables) : TableNameOf(tr, t) = name
                        THEN [td[name] EXCEPT !.query_group =
                                GroupOf(tr, ItemNamed(tr, tables, name))]
                        ELSE td[name]]]

LayoutOf(tr, td, folders, tables) ==
    LayoutWith(tr, td, folders, tables,
               SelectSeq(folders, LAMBDA f : WorkingParts(tr, f) # <<>>),
               SelectSeq(tables, LAMBDA t : ~IsCalculated(td, TableNameOf(tr, t))))

LayoutOfVisit(tr, td, visit) ==
    LayoutOf(tr, td, SelectSeq(visit, LAMBDA n : Kind(n) = ITEM_FOLDER),
             SelectSeq(visit, LAMBDA n : Kind(n) = ITEM_TABLE))

\* Returns folder_paths, table_order and table_groups (table_seq is the
\* insertion order of the table_groups dict), and the tree and tables_data as
\* the traversal leaves them.
_collect_tree_layout(tr, td) == LayoutOfVisit(tr, td, Walk(tr, tr.top))

\* {path: idx for idx, path in enumerate(folder_paths)}
EnumerateGroups(folder_paths) ==
    [p \in Range(folder_paths) |->
        Max({i \in 1..Len(folder_paths) : folder_paths[i] = p}) - 1]

\* ---------------------------------------------------- display folders
\* A display folder string is its parts with the token " / " between them;
\* a path is its parts joined by "/".
DisplaySep == " / "
\* only the innermost folder is named
_display_folder_from_path_mutC13(path) == IF path = <<>> THEN <<>> ELSE <<Last(path)>>

RECURSIVE _display_folder_from_path(_)
_display_folder_from_path(path) ==
    IF path = <<>> THEN <<>>
    ELSE IF Len(path) = 1 THEN path
    ELSE <<Head(path), DisplaySep>> \o _display_folder_from_path(Tail(path))

\* re.split on slash or backslash, strip, drop the empty parts
_normalize_display_path(raw) == SelectSeq(raw, LAMBDA a : a # DisplaySep)

\* ---------------------------------------------- _sync_measures_from_tree
\* traverse(): the measure-folder and measure items below the items of s, in
\* order, each with the folder path it is reached under
RECURSIVE MeasureWalk(_, _, _)
MeasureWalk(tr, s, parent_path) ==
    IF s = <<>> THEN <<>>
    ELSE (IF Kind(Head(s)) = ITEM_MEASURE_FOLDER
          THEN <<[node |-> Head(s), path |-> parent_path \o tr.text[Head(s)]]>>
                 \o MeasureWalk(tr, tr.kids[Head(s)], parent_path \o tr.text[Head(s)])
          ELSE IF Kind(Head(s)) = ITEM_MEASURE
          THEN <<[node |-> Head(s), path |-> parent_path]>>
          ELSE MeasureWalk(tr, tr.kids[Head(s)], parent_path))
         \o MeasureWalk(tr, Tail(s), parent_path)

RECURSIVE SortMeasuresOf(_, _)
SortMeasuresOf(tr, ts) ==
    IF ts = <<>> THEN tr
    ELSE SortMeasuresOf(ensure_measure_items_sorted(tr, Head(ts)), Tail(ts))

\* measure_lookup: the record of measure id, over all tables
MeasureLookup(td, id) ==
    LET found == {m \in UNION {Range(td[t].measures) : t \in DOMAIN td} : m.id = id}
    IN IF found = {}
       THEN [id |-> id, name |-> <<>>, display_folder |-> <<>>]
       ELSE CHOOSE m \in found : TRUE

\* updated_measures of one table from the walk below its item
MeasureRecords(tr, td, entries) ==
    [i \in 1..Len(entries) |->
        [MeasureLookup(td, entries[i].node) EXCEPT
            !.name = tr.text[entries[i].node],
            !.display_folder = _display_folder_from_path(entries[i].path)]]
UpdatedMeasures(tr, td, walk) ==
    MeasureRecords(tr, td, SelectSeq(walk, LAMBDA e : Kind(e.node) = ITEM_MEASURE))

\* what the walks make of item n: its table's name and the path it is under
WalkedAs(tr, named, walks, n) ==
    UNION {{[table |-> tr.user[t], path |-> walks[t][i].path] :
                i \in {j \in 1..Len(walks[t]) : walks[t][j].node = n}} :
           t \in Range(named)}

SyncResult(td, tr2, td1) ==
    [tree |-> tr2,
     tables_data |-> td1,
     changed |-> \E name \in DOMAIN td : td1[name].measures # td[name].measures]

SyncWalks(tr, td, named, walks) ==
    SyncResult(td,
        [tr EXCEPT
           !.key = [n \in Nodes |->
                      IF Kind(n) = ITEM_MEASURE_FOLDER /\ WalkedAs(tr, named, walks, n) # {}
                      THEN (CHOOSE e \in WalkedAs(tr, named, walks, n) : TRUE).path
                      ELSE @[n]],
           !.user = [n \in Nodes |->
                      IF /\ Kind(n) \in {ITEM_MEASURE_FOLDER, ITEM_MEASURE}
                         /\ WalkedAs(tr, named, walks, n) # {}
                      THEN (CHOOSE e \in WalkedAs(tr, named, walks, n) : TRUE).table
                      ELSE @[n]]],
        [name \in DOMAIN td |->
           IF \E t \in Range(named) : tr.user[t] = name
           THEN [td[name] EXCEPT !.measures =
                   UpdatedMeasures(tr, td, walks[ItemNamed(tr, named, name)])]
           ELSE td[name]])

SyncNamed(tr, td, named) ==
    SyncWalks(tr, td, named,
              [t \in Range(named) |-> MeasureWalk(tr, tr.kids[t], <<>>)])

SyncSorted(tr, td, table_items) ==
    SyncNamed(SortMeasuresOf(tr, table_items), td,
              SelectSeq(table_items, LAMBDA t : tr.user[t] # ""))

\* Returns the tree and tables_data after the sync and whether any table's
\* list of (position, id, display_folder, name) changed.
_sync_measures_from_tree(tr, td) == SyncSorted(tr, td, TableItems(tr))

\* ------------------------------------------- on_tree_structure_changed
RECURSIVE _nearest_folder_ancestor(_, _)
_nearest_folder_ancestor(tr, n) ==
    IF ParentOf(tr, n) = NoNode \/ Kind(ParentOf(tr, n)) = ITEM_FOLDER
    THEN ParentOf(tr, n)
    ELSE _nearest_folder_ancestor(tr, ParentOf(tr, n))

TableOr(t, found) == IF t # NoNode THEN t ELSE found
_closest_table(tr, n) ==
    TableOr(_table_item_for(tr, n), _find_table_item(tr, tr.user[n]))

InsertBefore(tr, other, n) ==
    [tr EXCEPT !.top = InsertAt(tr.top, IndexOf(tr.top, other) - 1, n)]
_insert_at_root(tr, n) ==
    InsertBefore(ensure_other_queries_folder(tr),
                 find_other_queries_item(ensure_other_queries_folder(tr)), n)

\* the table branch of _repair_parent, once the destination folder is known
RepairTable(tr0, n, destination_folder) ==
    ensure_measure_items_sorted(
        ensure_columns_sorted(
            sort_tables_in_folder(addChild(_detach(tr0, n), destination_folder, n),
                                  destination_folder),
            n),
        n)

\* destination_folder is the nearest folder above, else the Other Queries item
RepairTableIn(tr0, n, anc) ==
    RepairTable(tr0, n, IF anc # NoNode THEN anc ELSE find_other_queries_item(tr0))

\* _detach(item); table_item.addChild(item)
MoveUnder(tr, n, table_item) == addChild(_detach(tr, n), table_item, n)

\* _repair_parent with item.parent(), _closest_table(item) and
\* _nearest_folder_ancestor(item) at hand.  Returns the tree and whether the
\* item was moved to a permitted parent.
RepairWith(tr, n, parent_item, table_item, anc) ==
    IF Kind(parent_item) \in ALLOWED_PARENTS(Kind(n))
       /\ ~(/\ Kind(n) = ITEM_MEASURE_FOLDER
            /\ _table_item_for(tr, n) = NoNode
            /\ table_item # NoNode /\ table_item # parent_item)
    THEN [tree |-> tr, repaired |-> FALSE]
    ELSE IF Kind(n) = ITEM_FOLDER
    THEN [tree |-> IF anc # NoNode THEN addChild(_detach(tr, n), anc, n)
                   ELSE _insert_at_root(_detach(tr, n), n),
          repaired |-> TRUE]
    ELSE IF Kind(n) = ITEM_TABLE
    THEN [tree |-> RepairTableIn(IF anc # NoNode THEN tr ELSE ensure_other_queries_folder(tr),
                                 n, anc),
          repaired |-> TRUE]
    ELSE IF table_item = NoNode THEN [tree |-> tr, repaired |-> FALSE]
    ELSE IF Kind(n) = ITEM_COLUMN
    THEN [tree |-> ensure_columns_sorted(
                     [MoveUnder(tr, n, table_item) EXCEPT !.user[n] = tr.user[table_item]],
                     table_item),
          repaired |-> TRUE]
    ELSE [tree |-> ensure_measure_items_sorted(
                     IF Kind(n) = ITEM_MEASURE_FOLDER
                     THEN _reset_measure_folder_paths(MoveUnder(tr, n, table_item), n, <<>>)
                     ELSE [MoveUnder(tr, n, table_item) EXCEPT !.user[n] = tr.user[table_item]],
                     table_item),
          repaired |-> TRUE]

_repair_parent(tr, n) ==
    RepairWith(tr, n, ParentOf(tr, n), _closest_table(tr, n), _nearest_folder_ancestor(tr, n))

\* after the loop over a node's children
AfterChildren(tr, node, parent_item) ==
    IF Kind(node) = ITEM_MEASURE_FOLDER
    THEN _reset_measure_folder_paths(tr, node,
            IF Kind(parent_item) = ITEM_MEASURE_FOLDER THEN tr.key[parent_item] ELSE <<>>)
    ELSE IF Kind(node) = ITEM_TABLE
    THEN ensure_measure_items_sorted(ensure_columns_sorted(tr, node), node)
    ELSE tr

\* The loops of on_tree_structure_changed that call _repair_parent, as one
\* loop over the place the code is at.  A place c has the tree, where the
\* code is (at), an index, a node and the queue: "top" is the first loop at
\* index idx; "head" is the top of the queue loop; "child" is the loop over
\* the children of node at index idx; "done" is behind the queue loop.
RepairPlace(tr, at, idx, node, queue) ==
    [tree |-> tr, at |-> at, idx |-> idx, node |-> node, queue |-> queue]

\* the item the code looks at next; NoNode when a loop is at its end
ItemAt(c) ==
    IF c.at = "top"
    THEN IF c.idx > Len(c.tree.top) THEN NoNode ELSE c.tree.top[c.idx]
    ELSE IF c.at = "head"
    THEN IF c.queue = <<>> THEN NoNode ELSE Head(c.queue)
    ELSE IF c.idx > Len(c.tree.kids[c.node]) THEN NoNode
    ELSE c.tree.kids[c.node][c.idx]

\* whether the code calls _repair_parent for the item
CallsRepair(c, item) ==
    /\ item # NoNode
    /\ \/ c.at = "top" /\ Kind(item) # ITEM_FOLDER
       \/ c.at = "head"
       \/ c.at = "child" /\ Kind(item) \notin ALLOWED_CHILDREN(Kind(c.node))

\* the place after the item has been dealt with; r is what _repair_parent
\* returned, if it was called
AfterItem(c, item, r) ==
    IF c.at = "top"
    THEN IF item = NoNode THEN RepairPlace(c.tree, "head", 0, NoNode, c.tree.top)
         ELSE RepairPlace(r.tree, "top", IF r.repaired THEN c.idx ELSE c.idx + 1,
                          NoNode, <<>>)
    ELSE IF c.at = "head"
    THEN IF item = NoNode THEN RepairPlace(c.tree, "done", 0, NoNode, <<>>)
         ELSE IF r.repaired
         THEN RepairPlace(r.tree, "head", 0, NoNode, Append(Tail(c.queue), item))
         ELSE RepairPlace(c.tree, "child", 1, item, Tail(c.queue))
    ELSE IF item = NoNode
    THEN RepairPlace(AfterChildren(c.tree, c.node, ParentOf(c.tree, c.node)),
                     "head", 0, NoNode, c.queue)
    ELSE IF r.repaired THEN RepairPlace(r.tree, "child", c.idx, c.node, c.queue)
    ELSE RepairPlace(c.tree, "child", c.idx + 1, c.node,
                     IF Kind(item) \in ALLOWED_CHILDREN(Kind(c.node))
                     THEN Append(c.queue, item) ELSE c.queue)

RepairItem(c, item) ==
    AfterItem(c, item,
              IF CallsRepair(c, item) THEN _repair_parent(c.tree, item)
              ELSE [tree |-> c.tree, repaired |-> FALSE])

RECURSIVE RepairLoop(_)
RepairLoop(c) ==
    IF c.at = "done" THEN c.tree ELSE RepairLoop(RepairItem(c, ItemAt(c)))

\* sort_tables_in_folder for the folders of fs in turn
RECURSIVE SortTablesOfFolders(_, _)
SortTablesOfFolders(tr, fs) ==
    IF fs = <<>> THEN tr
    ELSE SortTablesOfFolders(sort_tables_in_folder(tr, Head(fs)), Tail(fs))

\* _ensure_tables_sorted_recursive over every top-level item: the folders are
\* met in pre-order, and sorting the tables of one folder moves no folder
SortAllTables(tr) ==
    SortTablesOfFolders(tr, SelectSeq(Preorder(tr, tr.top), LAMBDA n : Kind(n) = ITEM_FOLDER))

mark_dirty(st) == IF st.loading THEN st ELSE [st EXCEPT !.is_dirty = TRUE]

\* the tree after the repair loops and the sorting of the tables
RepairedTree(tr) ==
    ensure_other_queries_last(
        SortAllTables(
            ensure_other_queries_last(
                RepairLoop(RepairPlace(ensure_other_queries_last(tr), "top", 1, NoNode, <<>>)))))

\* previous_table_groups.get(name) != table_groups.get(name) for some name
table_group_changed(td, table_groups) ==
    \/ \E name \in DOMAIN td \cap DOMAIN table_groups :
          td[name].query_group # table_groups[name]
    \/ \E name \in DOMAIN td \ DOMAIN table_groups : td[name].query_group # <<>>
    \/ \E name \in DOMAIN table_groups \ DOMAIN td : table_groups[name] # <<>>

MarkIf(st, changed) == IF changed THEN mark_dirty(st) ELSE st

StoreLayout(st, layout, new_query_groups, sync) ==
    MarkIf([st EXCEPT !.tree = DropGarbage(sync.tree),
                      !.tables_data = sync.tables_data,
                      !.query_groups = new_query_groups,
                      !.query_order = layout.table_order],
           \/ layout.table_order # st.query_order
           \/ new_query_groups # st.query_groups
           \/ table_group_changed(st.tables_data, layout.table_groups)
           \/ sync.changed)

ReconcileMeasures(st, layout) ==
    StoreLayout(st, layout, EnumerateGroups(layout.folder_paths),
                _sync_measures_from_tree(layout.tree, layout.tables_data))

ReconcileLayout(st, tr) == ReconcileMeasures(st, _collect_tree_layout(tr, st.tables_data))

on_tree_structure_changed(st) == ReconcileLayout(st, RepairedTree(st.tree))

\* ------------------------------------------------------- the files on disk
\* the positions of the lines of one kind in a text, in file order
LinesOf(text, kind) ==
    SelectSeq([i \in 1..Len(text) |-> i], LAMBDA i : text[i].line = kind)

\* The text a query group is named by in a file: the quote around it ("'",
\* "\"" or "" for none), the separator between its parts ("/" or "\\") and
\* the parts, "" where two separators meet.
NameToken(quote, sep, parts) == [quote |-> quote, sep |-> sep, parts |-> parts]
\* f"'{path}'", the form both writers give a group path
Quoted(path) == NameToken("'", "/", path)

\* model.tmdl is a sequence of lines.  A queryGroup block is the line
\* queryGroup <name> with the line annotation PBI_QueryGroupOrder = <order>
\* after it; keyword is how the block spells its keywords: "queryGroup" as
\* the writer spells them, "querygroup" in any other capitalisation.  The
\* PBI_QueryOrder line carries its indentation and the names of its list
\* literal; every other line of the file is an OtherLine, taken to start in
\* the first column, or a WhiteLine.
QueryGroupBlock(keyword, name, order) ==
    [line |-> "queryGroup", keyword |-> keyword, name |-> name, order |-> order]
QueryOrderLine(indent, names) ==
    [line |-> "PBI_QueryOrder", indent |-> indent, names |-> names]
OtherLine == [line |-> "other"]
\* a line of model.tmdl that holds nothing but the white space ws
WhiteLine(ws) == [line |-> "blank", ws |-> ws]
TAB == "\t"

\* The lines of a table file outside its measure blocks, each with its line
\* ending: the mode: line, the queryGroup line with the name as the file
\* spells it, blank lines and lines of any other content.
ModeLine(eol) == [line |-> "mode", eol |-> eol]
QueryGroupLine(name, eol) == [line |-> "queryGroup", name |-> name, eol |-> eol]
BlankLine(eol) == [line |-> "blank", eol |-> eol]
TextLine(eol) == [line |-> "other", eol |-> eol]
LF == "\n"
CRLF == "\r\n"
\* the partition of a table as Power BI lays it out, with one queryGroup
\* line for each of names (none or one)
PartitionLines(names) ==
    <<TextLine(LF), ModeLine(LF)>>
    \o [i \in 1..Len(names) |-> QueryGroupLine(names[i], LF)]
    \o <<TextLine(LF)>>

\* A table file: partition type, the lines outside the measure blocks, and
\* the measure blocks (name and displayFolder).
DiskProject ==
    [model |-> <<OtherLine,
                 QueryGroupBlock("queryGroup", Quoted(<<"A">>), 0),
                 QueryGroupBlock("queryGroup", Quoted(<<"A", "B">>), 1),
                 QueryOrderLine("", <<"Sales", "Calc", "Dates">>),
                 OtherLine>>,
     tables |-> [t \in {"Calc", "Dates", "Sales"} |->
                   [table_type |-> IF t = "Calc" THEN "calculated" ELSE "m",
                    lines |-> CASE t = "Sales" -> PartitionLines(<<Quoted(<<"A", "B">>)>>)
                                [] t = "Calc" -> PartitionLines(<<Quoted(<<"A">>)>>)
                                [] OTHER -> PartitionLines(<<>>),
                    measures |-> <<>>]]]
\* a project whose tables folder holds no table file
DiskEmptyProject ==
    [model |-> <<OtherLine,
                 QueryGroupBlock("queryGroup", Quoted(<<"A">>), 0),
                 QueryOrderLine("", <<>>)>>,
     tables |-> [t \in {} |-> 0]]
InitialDisks == {DiskProject, DiskEmptyProject}
\* a project with measures: Sales has the measure A in the display folder A,
\* Dates has the measure a; no query groups, and PBI_QueryOrder lists Sales
\* before Dates
DiskMeasures ==
    [model |-> <<OtherLine, QueryOrderLine("", <<"Sales", "Dates">>)>>,
     tables |-> [t \in {"Dates", "Sales"} |->
                   [table_type |-> "m",
                    lines |-> PartitionLines(<<>>),
                    measures |-> IF t = "Sales"
                                 THEN <<[name |-> <<"A">>, display_folder |-> <<"A">>]>>
                                 ELSE <<[name |-> <<"a">>, display_folder |-> <<>>]>>]]]

\* the pattern \[.*?\] ends at the first "]" of the text, so a name with a
\* "]" in it cuts the list literal short
ClosesList(a) == a = "Sales [EU]"
\* a name token '...' whose text has an apostrophe and a blank in it matches
\* none of the alternatives '[^']+', "[^"]+" and [^\s]+ up to the line end
SplitsToken(a) == a = "Year's end"
TokenMatches(name) == \A i \in 1..Len(name.parts) : ~SplitsToken(name.parts[i])

\* an element of the list that is no string: {{}}, a set display that holds
\* a dict, parses as a literal and cannot be built
Unhashable(a) == a = "{{}}"

\* ast.literal_eval of the text \[.*?\] matched, a list with the elements
\* names: the text cut short does not parse (SyntaxError); a set of a dict
\* parses and raises TypeError when it is built
literal_eval(names) ==
    IF \E i \in 1..Len(names) : ClosesList(names[i])
    THEN [ok |-> FALSE, exception |-> "SyntaxError", value |-> <<>>]
    ELSE IF \E i \in 1..Len(names) : Unhashable(names[i])
    THEN [ok |-> FALSE, exception |-> "TypeError", value |-> <<>>]
    ELSE [ok |-> TRUE, exception |-> "none", value |-> names]

\* _parse_query_order: the list literal of the first PBI_QueryOrder
\* annotation; [] when there is none or the literal does not evaluate
_parse_query_order(model_text) ==
    LET found == LinesOf(model_text, "PBI_QueryOrder")
    IN IF found = <<>> THEN <<>>
       ELSE LET value == literal_eval(model_text[found[1]].names)
            IN IF value.ok THEN value.value ELSE <<>>

\* _parse_query_order lets through every exception of ast.literal_eval that
\* its except clause (ValueError, SyntaxError) does not name
ParseOrderRaises(model_text) ==
    LET found == LinesOf(model_text, "PBI_QueryOrder")
    IN /\ found # <<>>
       /\ literal_eval(model_text[found[1]].names).exception
             \notin {"none", "ValueError", "SyntaxError"}

\* load_tables of the Power Query tab reads the order itself: the list of
\* the first PBI_QueryOrder annotation as ast.literal_eval returns it, [] if
\* there is none; any exception of ast.literal_eval ends the load
load_tables_query_order(model_text) ==
    LET found == LinesOf(model_text, "PBI_QueryOrder")
    IN IF found = <<>> THEN [raised |-> FALSE, query_order |-> <<>>]
       ELSE LET value == literal_eval(model_text[found[1]].names)
            IN [raised |-> ~value.ok, query_order |-> value.value]

\* _normalize_group_path: the quotes go, either separator splits, and the
\* empty parts are dropped; the path is the parts that remain
_normalize_group_path(raw) == SelectSeq(raw.parts, LAMBDA part : part # "")

\* _parse_query_groups: the blocks the pattern matches, in either spelling
\* of the keywords; normalized path -> smallest order seen for it
_parse_query_groups(model_text) ==
    LET matches == SelectSeq(LinesOf(model_text, "queryGroup"),
                             LAMBDA i : TokenMatches(model_text[i].name))
        normalized(i) == _normalize_group_path(model_text[matches[i]].name)
        paths == {normalized(i) : i \in 1..Len(matches)} \ {<<>>}
    IN [p \in paths |->
          Min({model_text[matches[i]].order :
                  i \in {j \in 1..Len(matches) : normalized(j) = p}})]

\* the measure blocks of a table file as measure records, in file order;
\* the ids are given when the tree is built
_parse_table_measures(file) ==
    [i \in 1..Len(file.measures) |->
        [id |-> NoNode,
         name |-> file.measures[i].name,
         display_folder |-> file.measures[i].display_folder]]

\* _parse_table_tmdl and the measures read with it: the record of a table
_parse_table_tmdl(file) ==
    [table_type |-> file.table_type,
     query_group |-> LET query_group_match == LinesOf(file.lines, "queryGroup")
                     IN IF query_group_match = <<>> THEN <<>>
                        ELSE _normalize_group_path(file.lines[query_group_match[1]].name),
     code_text |-> 0,
     import_mode |-> "import",
     measures |-> _parse_table_measures(file)]

\* _load_power_query_metadata: readable says whether model.tmdl and the
\* tables folder are there and can be read; an exception raised on the way
\* is caught and leaves the error set and nothing loaded
EmptyTables == [t \in {} |-> 0]
EmptyGroups == [p \in {} |-> 0]
_load_power_query_metadata(d, readable) ==
    IF ~readable \/ ParseOrderRaises(d.model)
    THEN [tables |-> EmptyTables, query_order |-> <<>>, query_groups |-> EmptyGroups,
          error |-> TRUE]
    ELSE [tables |-> [t \in DOMAIN d.tables |-> _parse_table_tmdl(d.tables[t])],
          query_order |-> _parse_query_order(d.model),
          query_groups |-> _parse_query_groups(d.model),
          error |-> FALSE]

\* ------------------------------------------------------------ populate_tree
_expand_group_path(path) == {SubSeq(path, 1, i) : i \in 1..Len(path)}
Prefixes(path) == [i \in 1..Len(path) |-> SubSeq(path, 1, i)]

all_group_paths(td, qg) ==
    UNION {_expand_group_path(td[t].query_group) : t \in DOMAIN td}
        \cup UNION {_expand_group_path(p) : p \in DOMAIN qg}

\* path_orders[p]: the smallest order of a query group at or below p
path_orders(qg, p) ==
    LET c == {qg[q] : q \in {r \in DOMAIN qg : IsPrefix(p, r)}}
    IN IF c = {} THEN Inf ELSE Min(c)

\* the sort key (path_orders.get(p, inf), p.lower()) as a rank within S
FolderSortKey(S, qg) ==
    [p \in S |-> Cardinality({q \in S :
        \/ path_orders(qg, q) < path_orders(qg, p)
        \/ path_orders(qg, q) = path_orders(qg, p) /\ StrLess(q, p)})]

\* the folders ensure_folder creates, in creation order, when it is called
\* for the paths of L in turn: a missing parent is created before its child
RECURSIVE FolderCreation(_, _)
FolderCreation(L, acc) ==
    IF L = <<>> THEN acc
    ELSE FolderCreation(Tail(L),
            acc \o SelectSeq(Prefixes(Head(L)), LAMBDA q : q \notin Range(acc)))

\* table_sort_key as a rank within the tables of one group
TableSortKey(S, query_order) ==
    LET Pos(t) == LET c == {i \in 1..Len(query_order) : query_order[i] = t}
                  IN IF c = {} THEN Len(query_order) ELSE Max(c) - 1
    IN [t \in S |-> Cardinality({u \in S :
            \/ Pos(u) < Pos(t)
            \/ Pos(u) = Pos(t) /\ TableRank(u) < TableRank(t)})]

\* the tables of set S as a sequence in name order
RECURSIVE SetToSeq(_)
SetToSeq(S) ==
    IF S = {} THEN <<>>
    ELSE LET t == CHOOSE t \in S : \A u \in S : TableRank(t) <= TableRank(u)
         IN <<t>> \o SetToSeq(S \ {t})

\* every measure of every table, as [table, idx], tables in name order
RECURSIVE MeasureSlots(_, _)
MeasureSlots(td, ts) ==
    IF ts = <<>> THEN <<>>
    ELSE [i \in 1..Len(td[Head(ts)].measures) |-> [table |-> Head(ts), idx |-> i]]
            \o MeasureSlots(td, Tail(ts))

\* the measure folders _ensure_measure_folder creates, as [table, path]
RECURSIVE MeasureFolderCreation(_, _, _)
MeasureFolderCreation(td, slots, acc) ==
    IF slots = <<>> THEN acc
    ELSE LET e == Head(slots)
             folder_path == _normalize_display_path(td[e.table].measures[e.idx].display_folder)
             want == [i \in 1..Len(folder_path) |->
                        [table |-> e.table, path |-> SubSeq(folder_path, 1, i)]]
         IN MeasureFolderCreation(td, Tail(slots),
                acc \o SelectSeq(want, LAMBDA w : w \notin Range(acc)))

\* what a load needs from the item pools
PopulateFits(td, qg) ==
    LET slots == MeasureSlots(td, SetToSeq(DOMAIN td))
    IN /\ Cardinality(all_group_paths(td, qg)) <= MaxFolders
       /\ Len(slots) <= MaxMeasures
       /\ Len(MeasureFolderCreation(td, slots, <<>>)) <= MaxMeasureFolders

\* the ids populate_tree gives the items it creates
MeasureId(slots, t, i) == 400 + IndexOf(slots, [table |-> t, idx |-> i])
MFolderId(mfs, t, p) == 300 + IndexOf(mfs, [table |-> t, path |-> p])
NodesOf(ts) == [i \in 1..Len(ts) |-> TableNode(ts[i])]
\* the table a table item, or a column item, was created for
TableOfItem(n) == TableNames[n - 100]
TableOfColumn(n) == TableNames[n - 200]

\* measure_id = uuid4().hex for every measure of every table
WithMeasureIds(td0, slots) ==
    [t \in DOMAIN td0 |->
        [td0[t] EXCEPT !.measures =
            [i \in 1..Len(td0[t].measures) |->
                [td0[t].measures[i] EXCEPT !.id = MeasureId(slots, t, i)]]]]

\* sorted(tables, key=table_sort_key), as items
SortedTables(ts, query_order) ==
    NodesOf(SortByKey(ts, TableSortKey(Range(ts), query_order)))
TablesOfGroup(td, query_order, g) ==
    SortedTables(SetToSeq({t \in DOMAIN td : td[t].query_group = g}), query_order)

IndexesIn(created, c) == [i \in 1..Len(c) |-> IndexOf(created, c[i])]
SubFolders(created, p) ==
    IndexesIn(created,
              SelectSeq(created, LAMBDA q : Len(q) = Len(p) + 1 /\ IsPrefix(p, q)))

\* the folder path of the measure of slot e
FolderPathOf(td, e) == _normalize_display_path(td[e.table].measures[e.idx].display_folder)

MeasureIds(slots, t, c) == [i \in 1..Len(c) |-> MeasureId(slots, t, c[i].idx)]
MeasuresAt(td, slots, t, p) ==
    MeasureIds(slots, t, SelectSeq(slots, LAMBDA e : e.table = t /\ FolderPathOf(td, e) = p))
MFolderIds(mfs, t, c) == [i \in 1..Len(c) |-> MFolderId(mfs, t, c[i].path)]
MFoldersAt(mfs, t, p) ==
    MFolderIds(mfs, t,
               SelectSeq(mfs, LAMBDA e : /\ e.table = t /\ Len(e.path) = Len(p) + 1
                                         /\ IsPrefix(p, e.path)))

\* children in the order addChild is called: a folder is added when the
\* first measure below it is placed
FirstPlaced(td, slots, mfs, t, p, below, n) ==
    Min({i \in 1..Len(below) :
           IF Kind(n) = ITEM_MEASURE THEN n = MeasureId(slots, t, below[i].idx)
           ELSE /\ Len(FolderPathOf(td, below[i])) > Len(p)
                /\ n = MFolderId(mfs, t, SubSeq(FolderPathOf(td, below[i]), 1, Len(p) + 1))})
InPlacingOrder(td, slots, mfs, t, p, items) ==
    SortByKey(items,
              [n \in Range(items) |->
                  FirstPlaced(td, slots, mfs, t, p,
                              SelectSeq(slots, LAMBDA e : e.table = t), n)])
MFolderKids(td, slots, mfs, t, p) ==
    InPlacingOrder(td, slots, mfs, t, p, MFoldersAt(mfs, t, p) \o MeasuresAt(td, slots, t, p))
TableKids(td, slots, mfs, t) ==
    (IF t \in ColumnTables THEN <<ColumnNode(t)>> ELSE <<>>)
        \o MFolderKids(td, slots, mfs, t, <<>>)

\* which items of the pools populate_tree creates
Built(td, slots, created, mfs, n) ==
    CASE Kind(n) = ITEM_FOLDER -> n <= Len(created)
      [] Kind(n) = ITEM_TABLE -> TableOfItem(n) \in DOMAIN td
      [] Kind(n) = ITEM_COLUMN -> TableOfColumn(n) \in DOMAIN td \cap ColumnTables
      [] Kind(n) = ITEM_MEASURE_FOLDER -> n - 300 <= Len(mfs)
      [] OTHER -> n - 400 <= Len(slots)

BuiltKids(td, query_order, slots, created, mfs, n) ==
    CASE n = OtherNode -> TablesOfGroup(td, query_order, <<>>)
      [] Kind(n) = ITEM_FOLDER /\ n # OtherNode ->
            SubFolders(created, created[n]) \o TablesOfGroup(td, query_order, created[n])
      [] Kind(n) = ITEM_TABLE -> TableKids(td, slots, mfs, TableOfItem(n))
      [] Kind(n) = ITEM_MEASURE_FOLDER ->
            MFolderKids(td, slots, mfs, mfs[n - 300].table, mfs[n - 300].path)
      [] OTHER -> <<>>

BuiltText(td, slots, created, mfs, n) ==
    CASE n = OtherNode -> <<OTHER_QUERIES_NAME>>
      [] Kind(n) = ITEM_FOLDER /\ n # OtherNode -> <<Last(created[n])>>
      [] Kind(n) = ITEM_TABLE -> <<TableOfItem(n)>>
      [] Kind(n) = ITEM_COLUMN -> <<"Amount">>
      [] Kind(n) = ITEM_MEASURE_FOLDER -> <<Last(mfs[n - 300].path)>>
      [] OTHER -> td[slots[n - 400].table].measures[slots[n - 400].idx].name

BuiltKey(td, created, mfs, n) ==
    CASE n = OtherNode -> <<>>
      [] Kind(n) = ITEM_FOLDER /\ n # OtherNode -> created[n]
      [] Kind(n) = ITEM_TABLE -> td[TableOfItem(n)].query_group
      [] Kind(n) = ITEM_MEASURE_FOLDER -> mfs[n - 300].path
      [] OTHER -> <<>>

BuiltUser(slots, mfs, n) ==
    CASE Kind(n) = ITEM_FOLDER -> ""
      [] Kind(n) = ITEM_TABLE -> TableOfItem(n)
      [] Kind(n) = ITEM_COLUMN -> TableOfColumn(n)
      [] Kind(n) = ITEM_MEASURE_FOLDER -> mfs[n - 300].table
      [] OTHER -> slots[n - 400].table

\* the items as they are created and added; the Other Queries item is
\* created in any case
BuiltTree(td, query_order, slots, created, mfs, T) ==
    [top |-> IndexesIn(created, [i \in 1..Len(T) |-> <<T[i]>>]) \o <<OtherNode>>,
     kids |-> [n \in Nodes |->
                 IF n = OtherNode \/ Built(td, slots, created, mfs, n)
                 THEN BuiltKids(td, query_order, slots, created, mfs, n) ELSE <<>>],
     text |-> [n \in Nodes |->
                 IF n = OtherNode \/ Built(td, slots, created, mfs, n)
                 THEN BuiltText(td, slots, created, mfs, n) ELSE <<>>],
     key |-> [n \in Nodes |->
                 IF n = OtherNode \/ Built(td, slots, created, mfs, n)
                 THEN BuiltKey(td, created, mfs, n) ELSE <<>>],
     user |-> [n \in Nodes |->
                 IF n = OtherNode \/ Built(td, slots, created, mfs, n)
                 THEN BuiltUser(slots, mfs, n) ELSE ""]]

BuildFinish(td, tr0) ==
    [tree |-> ensure_other_queries_last(
                 SortMeasuresOf(tr0, NodesOf(SetToSeq(DOMAIN td)))),
     tables_data |-> td]

BuildWith(td, query_order, L, T, slots) ==
    BuildFinish(td,
        BuiltTree(td, query_order, slots, FolderCreation(L, <<>>),
                  MeasureFolderCreation(td, slots, <<>>), T))

BuildSlots(td0, query_order, L, T, slots) ==
    BuildWith(WithMeasureIds(td0, slots), query_order, L, T, slots)

\* The tree populate_tree builds (before its closing call of
\* on_tree_structure_changed) and tables_data with the measure ids it gives.
\* L and T are the orders the two sorted() calls over sets return.
BuildTree(td0, query_order, L, T) ==
    BuildSlots(td0, query_order, L, T, MeasureSlots(td0, SetToSeq(DOMAIN td0)))

ShowBuilt(st, b) ==
    on_tree_structure_changed([st EXCEPT !.tree = b.tree, !.tables_data = b.tables_data])

\* populate_tree: nothing is shown for a project without tables
populate_tree(st, L, T) ==
    IF DOMAIN st.tables_data = {} THEN [st EXCEPT !.tree = EmptyTree]
    ELSE ShowBuilt(st, BuildTree(st.tables_data, st.query_order, L, T))

\* ------------------------------------------------------------ drag and drop
RECURSIVE _folder_contains_tables(_, _)
_folder_contains_tables(tr, folder_item) ==
    \E c \in Range(tr.kids[folder_item]) :
        \/ Kind(c) = ITEM_TABLE
        \/ Kind(c) = ITEM_FOLDER /\ _folder_contains_tables(tr, c)

_is_descendant_item(tr, node, potential_ancestor) ==
    /\ node # NoNode
    /\ potential_ancestor # NoNode
    /\ node \in Subtree(tr, potential_ancestor)

_determine_drop_parent(tr, target_item, dragged, indicator) ==
    CASE indicator = "OnItem" ->
            IF target_item = NoNode THEN NoNode
            ELSE IF Kind(target_item) = ITEM_TABLE /\ Kind(dragged) = ITEM_TABLE
                 THEN ParentOf(tr, target_item)
                 ELSE target_item
      [] indicator \in {"AboveItem", "BelowItem"} ->
            IF target_item = NoNode THEN NoNode ELSE ParentOf(tr, target_item)
      [] OTHER -> NoNode

_validate_tree_drop(tr, target_item, dragged, indicator) ==
    LET target_type == Kind(target_item)
        parent_item == _determine_drop_parent(tr, target_item, dragged, indicator)
        parent_type == Kind(parent_item)
        child_type == Kind(dragged)
    IN /\ ~(indicator = "OnItem" /\ target_type = ITEM_TABLE /\ child_type = ITEM_TABLE)
       /\ ~(/\ indicator = "OnItem"
            /\ target_type = ITEM_FOLDER
            /\ child_type = ITEM_FOLDER
            /\ _folder_contains_tables(tr, dragged))
       /\ ~(parent_item # NoNode /\ _is_descendant_item(tr, parent_item, dragged))
       /\ ~(child_type = ITEM_FOLDER /\ KeyIsNone(tr, dragged) /\ parent_item # NoNode)
       /\ IF parent_item = NoNode
          THEN NoneKind \in ALLOWED_PARENTS(child_type)
          ELSE /\ parent_type \in ALLOWED_PARENTS(child_type)
               /\ child_type \in ALLOWED_CHILDREN(parent_type)
               /\ ~(/\ child_type = ITEM_FOLDER
                    /\ _folder_contains_tables(tr, dragged)
                    /\ parent_item # ParentOf(tr, dragged)
                    /\ parent_type = ITEM_FOLDER)
               /\ (child_type \in {ITEM_MEASURE, ITEM_MEASURE_FOLDER, ITEM_COLUMN}
                      => _table_item_for(tr, parent_item) # NoNode)

\* the item flags given by _create_folder_item, _create_table_item,
\* _ensure_measure_folder and _create_measure_item
IsDragEnabled(tr, n) ==
    \/ Kind(n) = ITEM_FOLDER /\ ~KeyIsNone(tr, n)
    \/ Kind(n) \in {ITEM_TABLE, ITEM_MEASURE_FOLDER, ITEM_MEASURE}
IsDropEnabled(n) == Kind(n) \in {ITEM_FOLDER, ITEM_TABLE, ITEM_MEASURE_FOLDER}

\* the children of container (NoNode: the top level)
ChildrenOf(tr, container) == IF container = NoNode THEN tr.top ELSE tr.kids[container]
SetChildrenOf(tr, container, s) ==
    IF container = NoNode THEN [tr EXCEPT !.top = s] ELSE SetKids(tr, container, s)

\* The view's move of the dragged item: on an item it becomes the last child,
\* above or below an item it is put next to it, elsewhere it goes to the end
\* of the top level.
MoveDropped(tr, target_item, dragged, indicator) ==
    LET tr1 == _detach(tr, dragged)
        container == IF indicator = "OnItem" THEN target_item
                     ELSE IF indicator = "OnViewport" THEN NoNode
                     ELSE ParentOf(tr1, target_item)
        cs == ChildrenOf(tr1, container)
        at == CASE indicator = "AboveItem" -> IndexOf(cs, target_item) - 1
                [] indicator = "BelowItem" -> IndexOf(cs, target_item)
                [] OTHER -> Len(cs)
    IN SetChildrenOf(tr1, container, InsertAt(cs, at, dragged))

\* the view's move alone: no validation before it, no handler after it
dropEvent_mutC6(st, target_item, dragged, indicator) ==
    [st EXCEPT !.tree = MoveDropped(st.tree, target_item, dragged, indicator)]

\* HierarchyTree.dropEvent for one dragged item, with the structure change
\* handler that the move triggers
dropEvent(st, target_item, dragged, indicator) ==
    IF ~_validate_tree_drop(st.tree, target_item, dragged, indicator) THEN st
    ELSE on_tree_structure_changed(
            [st EXCEPT !.tree = MoveDropped(st.tree, target_item, dragged, indicator)])

\* ------------------------------------------------------------ folder edits
generate_unique_folder_name(tr, parent) ==
    LET sibs == IF parent = NoNode THEN tr.top ELSE tr.kids[parent]
        existing == {lower(tr.text[sibs[i]]) : i \in {j \in 1..Len(sibs) :
                        Kind(sibs[j]) = ITEM_FOLDER /\ ~KeyIsNone(tr, sibs[j])}}
                    \cup (IF parent = NoNode THEN {lower(<<OTHER_QUERIES_NAME>>)} ELSE {})
        free == {i \in 1..Len(NewFolderNames) : lower(<<NewFolderNames[i]>>) \notin existing}
    IN NewFolderNames[Min(free)]

\* a folder item that is not in the tree
FreeFolder(tr) == Min(FolderNodes \ TreeNodes(tr))

create_new_folder(st, parent_folder) ==
    LET tr == st.tree
        name == generate_unique_folder_name(tr, parent_folder)
        parent_path == IF parent_folder = NoNode THEN <<>> ELSE tr.key[parent_folder]
        full_path == parent_path \o <<name>>
        folder_item == FreeFolder(tr)
        tr1 == [tr EXCEPT !.text[folder_item] = <<name>>, !.key[folder_item] = full_path]
        other_item == find_other_queries_item(tr1)
        tr2 == IF parent_folder # NoNode THEN addChild(tr1, parent_folder, folder_item)
               ELSE IF other_item # NoNode
                    THEN [tr1 EXCEPT !.top = InsertAt(tr1.top, IndexOf(tr1.top, other_item) - 1,
                                                     folder_item)]
                    ELSE addTopLevelItem(tr1, folder_item)
    IN on_tree_structure_changed([st EXCEPT !.tree = tr2])

\* the branch on_tree_item_changed takes for a folder item whose text the
\* editor has set to new_name (the empty name is <<>>)
RenameBranch(tr, item, new_name) ==
    LET folder_key == tr.key[item]
        old_name == IF folder_key = <<>> THEN <<>> ELSE <<Last(folder_key)>>
        siblings == ChildrenOf(tr, ParentOf(tr, item))
        clash == \E i \in 1..Len(siblings) :
                    /\ siblings[i] # item
                    /\ Kind(siblings[i]) = ITEM_FOLDER
                    /\ ~KeyIsNone(tr, siblings[i])
                    /\ lower(tr.text[siblings[i]]) = lower(new_name)
    IN IF KeyIsNone(tr, item) THEN "other"
       ELSE IF new_name = <<>> THEN "empty"
       ELSE IF new_name = old_name THEN "same"
       ELSE IF clash THEN "clash"
       ELSE "renamed"

\* on_tree_item_changed for a folder item
on_tree_item_changed_folder(st, item, new_name) ==
    LET tr == st.tree
        folder_key == tr.key[item]
        old_name == IF folder_key = <<>> THEN <<>> ELSE <<Last(folder_key)>>
        parent_item == ParentOf(tr, item)
        parent_key == IF parent_item = NoNode THEN <<>> ELSE tr.key[parent_item]
        branch == RenameBranch(tr, item, new_name)
        SetText(t) == [st EXCEPT !.tree.text[item] = t]
    IN CASE branch = "other" -> SetText(<<OTHER_QUERIES_NAME>>)
         [] branch = "empty" -> SetText(folder_key)
         [] branch = "same" -> SetText(new_name)
         [] branch = "clash" -> SetText(old_name)
         [] OTHER -> on_tree_structure_changed(
                        [st EXCEPT !.tree.text[item] = new_name,
                                   !.tree.key[item] = parent_key \o new_name])

\* delete_folder: the children are taken out one by one and only the tables
\* among them are put under Other Queries
delete_folder(st, item) ==
    IF Kind(item) # ITEM_FOLDER \/ KeyIsNone(st.tree, item) THEN st
    ELSE LET tr == ensure_other_queries_folder(st.tree)
             folder_key == tr.key[item]
             other_item == find_other_queries_item(tr)
             tables == SelectSeq(tr.kids[item], LAMBDA c : Kind(c) = ITEM_TABLE)
             tr1 == SetKids(SetKids(tr, item, <<>>), other_item, tr.kids[other_item] \o tables)
             tr2 == sort_tables_in_folder(tr1, other_item)
             tr3 == _detach(tr2, item)
             groups == [p \in DOMAIN st.query_groups \ {folder_key} |-> st.query_groups[p]]
         IN on_tree_structure_changed(
                [st EXCEPT !.tree = ensure_other_queries_last(tr3), !.query_groups = groups])

_item_depth(tr, n) == Cardinality({a \in Nodes : a # n /\ n \in Subtree(tr, a)})

RECURSIVE DeleteFolders(_, _)
DeleteFolders(st, folders) ==
    IF folders = <<>> THEN st
    ELSE DeleteFolders(delete_folder(st, Head(folders)), Tail(folders))

\* whether move_selected_items moves the one selected item
Moves(tr, direction, item) ==
    LET cs == ChildrenOf(tr, ParentOf(tr, item))
        index == IndexOf(cs, item) - 1
        sibling_count == Len(cs)
    IN /\ Kind(item) \in {ITEM_FOLDER, ITEM_TABLE}
       /\ IF direction = -1 THEN index # 0 ELSE index < sibling_count - 1

\* move_selected_items for one selected folder or table
move_selected_items(st, direction, item) ==
    LET tr == st.tree
        parent_ref == ParentOf(tr, item)
        cs == ChildrenOf(tr, parent_ref)
        index == IndexOf(cs, item) - 1
        tr1 == SetChildrenOf(tr, parent_ref, InsertAt(SeqRemove(cs, item), index + direction, item))
    IN IF ~Moves(tr, direction, item) THEN st
       ELSE on_tree_structure_changed([st EXCEPT !.tree = tr1])

sort_folders_and_tables(st) ==
    LET tr == st.tree
        others == SelectSeq(tr.top, LAMBDA n : KeyIsNone(tr, n))
        named == SelectSeq(tr.top, LAMBDA n : ~KeyIsNone(tr, n))
        folders == SortByKey(named, TextKey(tr, Range(named)))
        \* only the last item without a key is put back
        top == folders \o (IF others = <<>> THEN <<>> ELSE <<Last(others)>>)
        tr1 == SortTablesOfFolders([tr EXCEPT !.top = top], top)
    IN IF tr.top = <<>> THEN st
       ELSE on_tree_structure_changed([st EXCEPT !.tree = ensure_other_queries_last(tr1)])

\* ------------------------------------------------------------ measure edits
generate_unique_measure_name(td, table_name) ==
    LET existing == {lower(td[table_name].measures[i].name) :
                        i \in 1..Len(td[table_name].measures)}
        free == {i \in 1..Len(NewMeasureNames) : lower(<<NewMeasureNames[i]>>) \notin existing}
    IN NewMeasureNames[Min(free)]

generate_unique_measure_folder_name(tr, parent) ==
    LET existing == {lower(tr.text[c]) : c \in {d \in Range(tr.kids[parent]) :
                                                  Kind(d) = ITEM_MEASURE_FOLDER}}
        free == {i \in 1..Len(NewFolderNames) : lower(<<NewFolderNames[i]>>) \notin existing}
    IN NewFolderNames[Min(free)]

FreeMeasure(tr) == Min(MeasureNodes \ TreeNodes(tr))
FreeMeasureFolder(tr) == Min(MeasureFolderNodes \ TreeNodes(tr))

create_new_measure(st, parent_item) ==
    LET tr == st.tree
        table_item == _table_item_for(tr, parent_item)
        table_name == tr.user[table_item]
        base_parent == IF Kind(parent_item) = ITEM_MEASURE_FOLDER THEN parent_item ELSE table_item
        measure_name == generate_unique_measure_name(st.tables_data, table_name)
        folder_path == IF Kind(parent_item) = ITEM_MEASURE_FOLDER
                       THEN (IF tr.key[parent_item] # <<>> THEN tr.key[parent_item]
                             ELSE _normalize_display_path(tr.text[parent_item]))
                       ELSE <<>>
        measure_id == FreeMeasure(tr)
        measure_entry == [id |-> measure_id,
                          name |-> <<measure_name>>,
                          display_folder |-> _display_folder_from_path(folder_path)]
        td1 == [st.tables_data EXCEPT ![table_name].measures = Append(@, measure_entry)]
        tr1 == addChild([tr EXCEPT !.text[measure_id] = <<measure_name>>,
                                   !.user[measure_id] = table_name],
                        base_parent, measure_id)
        sync == _sync_measures_from_tree(ensure_measure_items_sorted(tr1, base_parent), td1)
    IN IF table_item = NoNode \/ table_name = "" THEN st
       ELSE mark_dirty([st EXCEPT !.tree = sync.tree, !.tables_data = sync.tables_data])

create_new_measure_folder(st, parent_item) ==
    LET tr == st.tree
        table_item == _table_item_for(tr, parent_item)
        table_name == tr.user[table_item]
        folder_name == generate_unique_measure_folder_name(tr, table_item)
        folder_item == FreeMeasureFolder(tr)
        container == IF Kind(parent_item) = ITEM_MEASURE_FOLDER THEN parent_item ELSE table_item
        tr1 == addChild([tr EXCEPT !.text[folder_item] = <<folder_name>>,
                                   !.user[folder_item] = table_name],
                        container, folder_item)
        base_path == IF Kind(container) = ITEM_MEASURE_FOLDER THEN tr.key[container] ELSE <<>>
        tr2 == ensure_measure_items_sorted(
                  _reset_measure_folder_paths(tr1, folder_item, base_path), container)
    IN IF table_item = NoNode \/ table_name = "" THEN st
       ELSE mark_dirty([st EXCEPT !.tree = tr2])

\* after a change of the measure items: _sync_measures_from_tree() and
\* mark_dirty()
SyncAndMark(st, sync) ==
    mark_dirty([st EXCEPT !.tree = sync.tree, !.tables_data = sync.tables_data])

\* the branch on_tree_item_changed takes for a measure folder item whose
\* text the editor has set to new_name
MeasureFolderRenameBranch(tr, item, new_name) ==
    LET parent_item == IF ParentOf(tr, item) # NoNode THEN ParentOf(tr, item)
                       ELSE _table_item_for(tr, item)
        siblings == IF parent_item # NoNode THEN tr.kids[parent_item] ELSE <<>>
        clash == \E i \in 1..Len(siblings) :
                    /\ siblings[i] # item
                    /\ Kind(siblings[i]) = ITEM_MEASURE_FOLDER
                    /\ lower(tr.text[siblings[i]]) = lower(new_name)
    IN IF new_name = <<>> THEN "empty"
       ELSE IF clash THEN "clash"
       ELSE "renamed"

\* on_tree_item_changed for a measure folder item
on_tree_item_changed_measure_folder(st, item, new_name) ==
    LET tr == st.tree
        old_path == tr.key[item]
        parent_item == IF ParentOf(tr, item) # NoNode THEN ParentOf(tr, item)
                       ELSE _table_item_for(tr, item)
        parent_path == IF parent_item # NoNode /\ Kind(parent_item) = ITEM_MEASURE_FOLDER
                       THEN tr.key[parent_item] ELSE <<>>
        branch == MeasureFolderRenameBranch(tr, item, new_name)
        tr1 == _reset_measure_folder_paths([tr EXCEPT !.text[item] = new_name],
                                           item, parent_path)
    IN CASE branch = "empty" ->
                [st EXCEPT !.tree.text[item] =
                    IF old_path # <<>> THEN <<Last(old_path)>> ELSE <<"Folder">>]
         [] branch = "clash" ->
                [st EXCEPT !.tree.text[item] =
                    IF old_path # <<>> THEN <<Last(old_path)>> ELSE new_name]
         [] OTHER ->
                SyncAndMark(st, _sync_measures_from_tree(
                                    ensure_measure_items_sorted(tr1, parent_item),
                                    st.tables_data))

\* _get_measure_data: the record of the measure in its table's list
_get_measure_data(td, table_name, measure_id) ==
    IF table_name \notin DOMAIN td THEN {}
    ELSE {m \in Range(td[table_name].measures) : m.id = measure_id}

\* the branch on_tree_item_changed takes for a measure item
MeasureRenameBranch(tr, td, item, new_name) ==
    LET table_name == tr.user[item]
        clash == /\ table_name \in DOMAIN td
                 /\ \E existing \in Range(td[table_name].measures) :
                       existing.id # item /\ lower(existing.name) = lower(new_name)
    IN IF new_name = <<>> THEN "empty"
       ELSE IF clash THEN "clash"
       ELSE "renamed"

\* measure["name"] = new_name for the measure with this id
SetMeasureName(td, table_name, measure_id, new_name) ==
    IF table_name \notin DOMAIN td THEN td
    ELSE [td EXCEPT ![table_name].measures =
            [i \in 1..Len(@) |-> IF @[i].id = measure_id
                                  THEN [@[i] EXCEPT !.name = new_name] ELSE @[i]]]

\* on_tree_item_changed for a measure item
on_tree_item_changed_measure(st, item, new_name) ==
    LET tr == st.tree
        table_name == tr.user[item]
        measure == _get_measure_data(st.tables_data, table_name, item)
        previous_name == IF measure = {} THEN <<>> ELSE (CHOOSE m \in measure : TRUE).name
        branch == MeasureRenameBranch(tr, st.tables_data, item, new_name)
        container == IF ParentOf(tr, item) # NoNode THEN ParentOf(tr, item)
                     ELSE _table_item_for(tr, item)
    IN IF branch \in {"empty", "clash"} THEN [st EXCEPT !.tree.text[item] = previous_name]
       ELSE SyncAndMark(st, _sync_measures_from_tree(
                                ensure_measure_items_sorted(
                                    [tr EXCEPT !.text[item] = new_name], container),
                                SetMeasureName(st.tables_data, table_name, item, new_name)))

\* the measures of a table without the one with this id
WithoutMeasure(td, table_name, measure_id) ==
    IF table_name = "" \/ table_name \notin DOMAIN td THEN td
    ELSE [td EXCEPT ![table_name].measures = SelectSeq(@, LAMBDA m : m.id # measure_id)]

delete_measure_item(st, measure_item) ==
    LET tr == st.tree
        table_name == tr.user[measure_item]
        parent == ParentOf(tr, measure_item)
    IN SyncAndMark(st, _sync_measures_from_tree(
                          ensure_measure_items_sorted(_detach(tr, measure_item), parent),
                          WithoutMeasure(st.tables_data, table_name, measure_item)))

\* the children of the folder are put below its parent, in order, and the
\* measure folders among them get their paths again
MoveUp(tr, folder_item, parent, parent_path) ==
    ResetChildFolders(
        SetKids(SetKids(tr, folder_item, <<>>), parent,
                tr.kids[parent] \o tr.kids[folder_item]),
        tr.kids[folder_item], parent_path)

delete_measure_folder(st, folder_item) ==
    LET tr == st.tree
        table_item == _table_item_for(tr, folder_item)
        parent == IF ParentOf(tr, folder_item) # NoNode THEN ParentOf(tr, folder_item)
                  ELSE table_item
        parent_path == IF Kind(parent) = ITEM_MEASURE_FOLDER THEN tr.key[parent] ELSE <<>>
        tr1 == _detach(MoveUp(tr, folder_item, parent, parent_path), folder_item)
    IN IF table_item = NoNode THEN st
       ELSE SyncAndMark(st, _sync_measures_from_tree(
                                ensure_measure_items_sorted(tr1, parent), st.tables_data))

RECURSIVE DeleteMeasureItems(_, _)
DeleteMeasureItems(st, measure_items) ==
    IF measure_items = <<>> THEN st
    ELSE DeleteMeasureItems(delete_measure_item(st, Head(measure_items)), Tail(measure_items))

RECURSIVE DeleteMeasureFolders(_, _)
DeleteMeasureFolders(st, folders) ==
    IF folders = <<>> THEN st
    ELSE DeleteMeasureFolders(delete_measure_folder(st, Head(folders)), Tail(folders))

\* sorted(items, key=_item_depth, reverse=True), depths taken in tree tr
DeepestFirst(tr, items) ==
    SortByKey(items, [n \in Range(items) |-> 0 - _item_depth(tr, n)])

\* delete_selected_items for a selection given in the order selectedItems()
\* lists it: the measures, then the measure folders, then the query folders
delete_selected_items(st, selected) ==
    LET measure_items == SelectSeq(selected, LAMBDA n : Kind(n) = ITEM_MEASURE)
        measure_folders == SelectSeq(selected, LAMBDA n : Kind(n) = ITEM_MEASURE_FOLDER)
        query_folders == SelectSeq(selected,
                            LAMBDA n : Kind(n) = ITEM_FOLDER /\ ~KeyIsNone(st.tree, n))
        st1 == DeleteMeasureItems(st, measure_items)
        st2 == DeleteMeasureFolders(st1, DeepestFirst(st1.tree, measure_folders))
    IN DeleteFolders(st2, DeepestFirst(st2.tree, query_folders))

\* ------------------------------------------------------------ detail edits
\* the query editor's text of the shown table changes (texts are numbered)
on_query_text_changed(st, current_table, text) ==
    mark_dirty([st EXCEPT !.tables_data[current_table].code_text = text])

on_import_mode_changed(st, current_table, value) ==
    mark_dirty([st EXCEPT !.tables_data[current_table].import_mode = value])

\* ------------------------------------------------------------ load
\* PBIPProject: whether a project is open and its cached _tables_metadata
NoProject ==
    [open |-> FALSE, tables |-> EmptyTables, query_order |-> <<>>,
     query_groups |-> EmptyGroups, error |-> FALSE]

\* reload_tables / refresh_all: the cache is read again from the files
Cached(m) ==
    [open |-> TRUE, tables |-> m.tables, query_order |-> m.query_order,
     query_groups |-> m.query_groups, error |-> m.error]
reload_tables(d, readable) == Cached(_load_power_query_metadata(d, readable))

\* clear_details() and the three assignments of load_tables
Cleared(st, tables, order, groups) ==
    [st EXCEPT !.tree = EmptyTree, !.loading = TRUE, !.tables_data = tables,
               !.query_order = order, !.query_groups = groups]

\* _set_dirty(False), and the finally clause
SetClean(st) == [st EXCEPT !.is_dirty = FALSE, !.loading = FALSE]

\* load_tables with an open project; L and T as in BuildTree
load_tables(st, metadata, L, T) ==
    SetClean(populate_tree(
        IF metadata.error THEN Cleared(st, EmptyTables, <<>>, EmptyGroups)
        ELSE Cleared(st, metadata.tables, metadata.query_order, metadata.query_groups),
        L, T))

\* the orders the two sorted() calls of populate_tree can return
FolderOrdersOf(S, qg) == SortedOrders(S, FolderSortKey(S, qg))
FolderOrders(metadata) ==
    FolderOrdersOf(all_group_paths(metadata.tables, metadata.query_groups),
                   metadata.query_groups)
FirstParts(orders) == {[i \in 1..Len(o) |-> o[i][1]] : o \in orders}
TopLevelOrdersOf(S, qg) == FirstParts(FolderOrdersOf({p \in S : Len(p) = 1}, qg))
TopLevelOrders(metadata) ==
    TopLevelOrdersOf(all_group_paths(metadata.tables, metadata.query_groups),
                     metadata.query_groups)

\* ------------------------------------------------------------ save
\* group_pattern of _update_model_tmdl: the keywords in the spelling of the
\* writer only, and a name token the alternatives match
group_pattern(l) ==
    l.line = "queryGroup" /\ l.keyword = "queryGroup" /\ TokenMatches(l.name)

\* group_pattern.sub("", original_text): a match takes its block and, by the
\* \s* that ends the pattern, all white space after it: the white lines
\* that follow and the indentation of the line after them.  eating: the
\* line before was taken by a match.
RECURSIVE GroupsRemoved(_, _)
GroupsRemoved(text, eating) ==
    IF text = <<>> THEN <<>>
    ELSE IF group_pattern(Head(text)) THEN GroupsRemoved(Tail(text), TRUE)
    ELSE IF eating /\ Head(text).line = "blank" THEN GroupsRemoved(Tail(text), TRUE)
    ELSE IF eating /\ Head(text).line = "PBI_QueryOrder"
    THEN <<[Head(text) EXCEPT !.indent = ""]>> \o GroupsRemoved(Tail(text), FALSE)
    ELSE <<Head(text)>> \o GroupsRemoved(Tail(text), FALSE)

\* _update_model_tmdl: the blocks group_pattern matches are removed, the list
\* of the first PBI_QueryOrder annotation becomes table_order, and one block
\* per folder path, numbered in order, goes in front of the word annotation
\* of that line: its indentation stays in before_order, which gets a newline
\* of its own when blocks are written and it does not end in one.
\* raised: the text has no PBI_QueryOrder annotation (ValueError).
_update_model_tmdl(model_text, folder_paths, table_order) ==
    LET text == GroupsRemoved(model_text, FALSE)
        order_match == LinesOf(text, "PBI_QueryOrder")
        order_indent == text[order_match[1]].indent
        group_block == [i \in 1..Len(folder_paths) |->
                           QueryGroupBlock("queryGroup", Quoted(folder_paths[i]), i - 1)]
    IN IF order_match = <<>>
       THEN [raised |-> TRUE, new_text |-> model_text]
       ELSE [raised |-> FALSE,
             new_text |->
                SubSeq(text, 1, order_match[1] - 1)
                \o (IF group_block # <<>> /\ order_indent # ""
                    THEN <<WhiteLine(order_indent)>> \o group_block
                         \o <<QueryOrderLine("", table_order)>>
                    ELSE group_block \o <<QueryOrderLine(order_indent, table_order)>>)
                \o SubSeq(text, order_match[1] + 1, Len(text))]

\* the line ending _update_table_definition gives a line it writes: that of
\* the first line that ends in one
line_ending_mutC21(lines) == LF
line_ending(lines) ==
    LET ended == SelectSeq([i \in 1..Len(lines) |-> i], LAMBDA i : lines[i].eol # "")
    IN IF ended = <<>> THEN LF ELSE lines[ended[1]].eol

\* _update_table_definition on the lines of a file; group_path <<>> is None.
\* A file without lines or without a mode: line is left alone.  Without a
\* group the first queryGroup line goes, and a blank line after it goes
\* with it; with a group that line becomes queryGroup: '<group_path>', or
\* the new line goes in after the mode: line.
UpdatedLines(lines, group_path) ==
    LET mode_idx == LinesOf(lines, "mode")
        query_idx == LinesOf(lines, "queryGroup")
        new_line == QueryGroupLine(Quoted(group_path), line_ending(lines))
        without == SubSeq(lines, 1, query_idx[1] - 1)
                   \o SubSeq(lines, query_idx[1] + 1, Len(lines))
    IN IF lines = <<>> \/ mode_idx = <<>> THEN lines
       ELSE IF group_path = <<>>
       THEN IF query_idx = <<>> THEN lines
            ELSE IF query_idx[1] <= Len(without) /\ without[query_idx[1]].line = "blank"
            THEN SubSeq(without, 1, query_idx[1] - 1)
                 \o SubSeq(without, query_idx[1] + 1, Len(without))
            ELSE without
       ELSE IF query_idx # <<>>
       THEN [lines EXCEPT ![query_idx[1]] = new_line]
       ELSE InsertAt(lines, mode_idx[1], new_line)

_update_table_definition(file, group_path) ==
    [file EXCEPT !.lines = UpdatedLines(file.lines, group_path)]

\* _render_measure_section: one block per measure, name and displayFolder
_render_measure_section(measures) ==
    [i \in 1..Len(measures) |->
        [name |-> measures[i].name, display_folder |-> measures[i].display_folder]]

_write_table_measures(file, table_info) ==
    [file EXCEPT !.measures = _render_measure_section(table_info.measures)]

\* whether the two writers open the file of a table for writing
WritesTable(file, table_info, group_path, calculated) ==
    \/ ~calculated /\ _update_table_definition(file, group_path) # file
    \/ ~(file.measures = <<>> /\ table_info.measures = <<>>)

\* the two writers of the loop, for one table
WriteTable(file, table_info, group_path, calculated) ==
    _write_table_measures(
        IF calculated THEN file ELSE _update_table_definition(file, group_path),
        table_info)

\* The loop of save_changes over the tables of table_groups in order; fail is
\* the table whose file cannot be opened for writing ("none": no such file).
\* Returns the table files and whether an exception ended the loop.
RECURSIVE SaveTables(_, _, _, _, _)
SaveTables(files, names, td, table_groups, fail) ==
    IF names = <<>> THEN [files |-> files, raised |-> FALSE]
    ELSE IF Head(names) \notin DOMAIN td \/ Head(names) \notin DOMAIN files
    THEN SaveTables(files, Tail(names), td, table_groups, fail)
    ELSE IF /\ Head(names) = fail
            /\ WritesTable(files[Head(names)], td[Head(names)], table_groups[Head(names)],
                           IsCalculated(td, Head(names)))
    THEN [files |-> files, raised |-> TRUE]
    ELSE SaveTables(
            [files EXCEPT ![Head(names)] =
                WriteTable(@, td[Head(names)], table_groups[Head(names)],
                           IsCalculated(td, Head(names)))],
            Tail(names), td, table_groups, fail)

\* update_power_query_metadata
update_power_query_metadata(st) ==
    [open |-> TRUE, tables |-> st.tables_data, query_order |-> st.query_order,
     query_groups |-> st.query_groups, error |-> FALSE]

\* the end of save_changes: updated is what _update_model_tmdl does to
\* model.tmdl, saved what the loop over the tables did
SaveResult_mutC28(st1, d, proj, fail, updated, saved) ==
    [st |-> [st1 EXCEPT !.is_dirty = FALSE],
     disk |-> IF updated.raised THEN d ELSE [model |-> updated.new_text, tables |-> saved.files],
     project |-> update_power_query_metadata(st1),
     ok |-> ~updated.raised /\ ~saved.raised /\ ~(fail = "model" /\ updated.new_text # d.model)]
SaveResult(st1, d, proj, fail, updated, saved) ==
    LET model1 == updated.new_text IN
    IF updated.raised \/ (fail = "model" /\ model1 # d.model)
    THEN [st |-> st1, disk |-> d, project |-> proj, ok |-> FALSE]
    ELSE IF saved.raised
    THEN [st |-> st1, disk |-> [model |-> model1, tables |-> saved.files],
          project |-> proj, ok |-> FALSE]
    ELSE [st |-> [st1 EXCEPT !.is_dirty = FALSE],
          disk |-> [model |-> model1, tables |-> saved.files],
          project |-> update_power_query_metadata(st1), ok |-> TRUE]

SaveLayout(st, d, proj, fail, layout) ==
    SaveResult([st EXCEPT !.tree = layout.tree,
                          !.tables_data = layout.tables_data,
                          !.query_groups = EnumerateGroups(layout.folder_paths),
                          !.query_order = layout.table_order],
               d, proj, fail,
               _update_model_tmdl(d.model, layout.folder_paths, layout.table_order),
               SaveTables(d.tables, layout.table_seq, layout.tables_data,
                          layout.table_groups, fail))

\* save_changes with a project open.  present: model.tmdl and the tables
\* folder exist; fail: "model", a table name or "none".  Returns the state,
\* the files, the project cache and whether the save went through.
save_changes(st, d, proj, present, fail) ==
    IF ~present THEN [st |-> st, disk |-> d, project |-> proj, ok |-> FALSE]
    ELSE SaveLayout(st, d, proj, fail, _collect_tree_layout(st.tree, st.tables_data))

\* ------------------------------------------------- the DAX Writer panel
\* What one HTTP call of a chat client ends in: a reply that can be used, a
\* reply that cannot (success false, no reply, no configuration in the
\* page), or an HTTPError with its code; a call that gets no answer
\* (URLError, a timeout) leaves generate as the HTTPError 500 does.
HttpOutcomes == {"200", "200fail", "401", "403", "500"}
\* _fetch_page_config or _ensure_config, the chat request, the nonce refresh
\* and the second chat request: one request makes at most MaxCalls calls
MaxCalls == 4
\* what the server answers to the successive calls of one request
Scripts == [1..MaxCalls -> HttpOutcomes]
Call(kind, outcome) == [call |-> kind, outcome |-> outcome]

\* _ensure_config of either client: with no configuration yet the page is
\* fetched, and anything but a usable page raises
_ensure_config(config, outcome) ==
    IF config # "none" THEN [config |-> config, trace |-> <<>>, raised |-> FALSE]
    ELSE IF outcome = "200"
    THEN [config |-> "page", trace |-> <<Call("config", outcome)>>, raised |-> FALSE]
    ELSE [config |-> "none", trace |-> <<Call("config", outcome)>>, raised |-> TRUE]

\* ChatGPTFreeClient.generate of the tab (tab_tables_elements.py): the
\* configuration, then one request to /api/conversation; every exception
\* leaves the function
generate(config, script) ==
    LET ensured == _ensure_config(config, script[1])
        answer == script[Len(ensured.trace) + 1]
    IN IF ensured.raised THEN ensured
       ELSE [config |-> ensured.config,
             trace |-> ensured.trace \o <<Call("chat", answer)>>,
             raised |-> answer # "200"]

\* _refresh_nonce of the DAX Writer client: a new nonce, or an exception
_refresh_nonce(config, outcome) ==
    IF outcome = "200" THEN [config |-> "refreshed", raised |-> FALSE]
    ELSE [config |-> config, raised |-> TRUE]

\* ChatGPTFreeClient.generate of the DAX Writer tab (tab_dax_writer.py): on
\* an HTTPError 403 or 401 the nonce is refreshed and the request is sent
\* once more, outside any try
dax_writer_generate(config, script) ==
    LET ensured == _ensure_config(config, script[1])
        at == Len(ensured.trace)
        first == script[at + 1]
        refreshed == _refresh_nonce(ensured.config, script[at + 2])
        second == script[at + 3]
    IN IF ensured.raised THEN ensured
       ELSE IF first \notin {"403", "401"}
       THEN [config |-> ensured.config,
             trace |-> ensured.trace \o <<Call("chat", first)>>,
             raised |-> first # "200"]
       ELSE IF refreshed.raised
       THEN [config |-> refreshed.config,
             trace |-> ensured.trace \o <<Call("chat", first), Call("refresh", script[at + 2])>>,
             raised |-> TRUE]
       ELSE [config |-> refreshed.config,
             trace |-> ensured.trace \o <<Call("chat", first), Call("refresh", script[at + 2]),
                                          Call("chat", second)>>,
             raised |-> second # "200"]

run_mutC30(result) == IF result.raised THEN "none" ELSE "finished"
\* ChatRequestWorker.run: the signal emitted for what fn did
run(result) == IF result.raised THEN "error" ELSE "finished"

\* the prompts typed: nothing, words, a table, a table with a column
Prompts ==
    {[words |-> FALSE, table |-> "none", column |-> FALSE],
     [words |-> TRUE, table |-> "none", column |-> FALSE],
     [words |-> TRUE, table |-> "Sales", column |-> FALSE],
     [words |-> TRUE, table |-> "Sales", column |-> TRUE]}

\* the panel when the tab is built, and the clients before their first call
DaxInit ==
    [busy |-> FALSE, generate_enabled |-> TRUE, status |-> "",
     output |-> "", prompt |-> [words |-> FALSE, table |-> "none", column |-> FALSE],
     dialog |-> "none"]
ChatInit ==
    [config |-> "none", worker |-> "idle", signal |-> "none", trace |-> <<>>,
     writer_config |-> "none", writer_trace |-> <<>>, started |-> 0, callbacks |-> 0]

\* _set_dax_busy: the flag, the button and the status label
_set_dax_busy(d, busy, status) ==
    [d EXCEPT !.busy = busy, !.generate_enabled = ~busy, !.status = status]

\* _count_dax_mentions on the prompt, with the patterns of the loaded tables
tables_found(tab) == {tab.dax.prompt.table} \cap DOMAIN tab.st.tables_data
columns_found(tab) == {t \in tables_found(tab) : tab.dax.prompt.column}

\* generate_dax_measure.  tab: the fields of the tab and of the panel;
\* started says whether a worker was handed to the thread pool
generate_dax_measure(tab, has_project) ==
    IF tab.dax.busy THEN [tab |-> tab, started |-> FALSE]
    ELSE IF ~has_project
    THEN [tab |-> [tab EXCEPT !.dax.dialog = "No PBIP"], started |-> FALSE]
    ELSE IF ~tab.dax.prompt.words
    THEN [tab |-> [tab EXCEPT !.dax.dialog = "Empty Prompt"], started |-> FALSE]
    ELSE IF tables_found(tab) = {}
    THEN [tab |-> [tab EXCEPT !.dax.dialog = "Missing Table"], started |-> FALSE]
    ELSE IF columns_found(tab) = {}
    THEN [tab |-> [tab EXCEPT !.dax.dialog = "Missing Column"], started |-> FALSE]
    ELSE [tab |-> [tab EXCEPT !.dax = _set_dax_busy(@, TRUE, "Generating DAX measure...")],
          started |-> TRUE]

_on_dax_generation_error_mutC25(tab) ==
    [tab EXCEPT !.dax = _set_dax_busy(@, FALSE, "Generation failed"),
                !.st.is_dirty = TRUE]
\* _on_dax_generation_success and _on_dax_generation_error
_on_dax_generation_success(tab) ==
    [tab EXCEPT !.dax = [_set_dax_busy(@, FALSE, "Generation complete.")
                            EXCEPT !.output = "reply"]]
_on_dax_generation_error(tab) ==
    [tab EXCEPT !.dax = [_set_dax_busy(@, FALSE, "Generation failed")
                            EXCEPT !.dialog = "Generation Failed"]]

\* ------------------------------------------------------------ the state
VARIABLES
    table_tree,     \* the items of the tree widget
    tables_data,    \* table name -> its record
    query_order,    \* the global query order
    query_groups,   \* folder path -> order
    is_dirty,       \* unsaved changes
    project,        \* the open project and its cached metadata
    disk,           \* model.tmdl and the table files
    steps,          \* number of user actions so far
    last,           \* the last user action and how it went
    dax,            \* the DAX Writer panel of the tab
    chat            \* the chat clients, the worker and its signal

vars == <<table_tree, tables_data, query_order, query_groups, is_dirty, project, disk,
          steps, last, dax, chat>>

\* the tab's fields as the record the handlers work on
State ==
    [tree |-> table_tree, tables_data |-> tables_data, query_order |-> query_order,
     query_groups |-> query_groups, is_dirty |-> is_dirty, loading |-> FALSE]

\* the names and paths of the tree stay within MaxPathLen parts
Fits(st) ==
    \A n \in TreeNodes(st.tree) :
        Len(st.tree.text[n]) <= MaxPathLen /\ Len(st.tree.key[n]) <= MaxPathLen

\* one user action: the handler's result st becomes the tab's state; last
\* records the handler, how it went and, for Delete, the selected items
Commit(st, op, arg, sel) ==
    /\ steps < MaxSteps
    /\ Fits(st)
    /\ table_tree' = DropGarbage(st.tree)
    /\ tables_data' = st.tables_data
    /\ query_order' = st.query_order
    /\ query_groups' = st.query_groups
    /\ is_dirty' = st.is_dirty
    /\ steps' = steps + 1
    /\ last' = [op |-> op, arg |-> arg, sel |-> sel]
    /\ UNCHANGED <<dax, chat>>

\* PowerQueryTab() with no project: nothing loaded, nothing shown
Init ==
    /\ table_tree = EmptyTree
    /\ tables_data = EmptyTables
    /\ query_order = <<>>
    /\ query_groups = EmptyGroups
    /\ is_dirty = FALSE
    /\ project = NoProject
    /\ disk \in InitialDisks
    /\ steps = 0
    /\ last = [op |-> "init", arg |-> "none", sel |-> <<>>]
    /\ dax = DaxInit
    /\ chat = ChatInit

\* ------------------------------------------------------------ the actions
\* Pick a .pbip file: when it cannot be opened nothing happens, else the
\* project is (re)read and shown.
ChoosePbipFile ==
    \E found, readable \in BOOLEAN :
        IF ~found
        THEN /\ Commit(State, "choose_pbip_file", "nofile", <<>>)
             /\ UNCHANGED <<project, disk>>
        ELSE LET proj == reload_tables(disk, readable)
             IN /\ PopulateFits(proj.tables, proj.query_groups)
                /\ \E L \in FolderOrders(proj), T \in TopLevelOrders(proj) :
                      Commit(load_tables(State, proj, L, T), "choose_pbip_file",
                             IF proj.error THEN "error" ELSE "ok", <<>>)
                /\ project' = proj
                /\ UNCHANGED disk

\* The Refresh button with a project open
RefreshTables ==
    \E readable \in BOOLEAN :
        LET proj == reload_tables(disk, readable)
        IN /\ project.open
           /\ PopulateFits(proj.tables, proj.query_groups)
           /\ \E L \in FolderOrders(proj), T \in TopLevelOrders(proj) :
                 Commit(load_tables(State, proj, L, T), "refresh_tables",
                        IF proj.error THEN "error" ELSE "ok", <<>>)
           /\ project' = proj
           /\ UNCHANGED disk

\* The Save button with a project open
SaveChanges ==
    \E present \in BOOLEAN, fail \in {"none", "model"} \cup TableSet :
        LET r == save_changes(State, disk, project, present, fail)
        IN /\ project.open
           /\ present \/ fail = "none"
           /\ fail \in TableSet => fail \in DOMAIN disk.tables
           /\ Commit(r.st, "save_changes",
                     IF ~present THEN "missing" ELSE IF r.ok THEN "ok" ELSE fail, <<>>)
           /\ project' = r.project
           /\ disk' = r.disk

NamedFolders == {n \in TreeNodes(table_tree) : Kind(n) = ITEM_FOLDER /\ ~KeyIsNone(table_tree, n)}
FolderItems == {n \in TreeNodes(table_tree) : Kind(n) = ITEM_FOLDER}

\* New Folder from the context menu of a folder or of the empty area
CreateNewFolder ==
    \E parent_folder \in FolderItems \cup {NoNode} :
        /\ FolderNodes \ TreeNodes(table_tree) # {}
        /\ Commit(create_new_folder(State, parent_folder), "create_new_folder", "none", <<>>)
        /\ UNCHANGED <<project, disk>>

\* the names typed into the inline editor
TypedNames == {<<>>, <<"A">>, <<"a">>, <<"B">>, <<OTHER_QUERIES_NAME>>}

RenameFolder ==
    \E item \in NamedFolders, new_name \in TypedNames :
        /\ Commit(on_tree_item_changed_folder(State, item, new_name), "rename_folder",
                  RenameBranch(table_tree, item, new_name), <<>>)
        /\ UNCHANGED <<project, disk>>

\* Delete with one or two folders selected
DeleteSelectedItems ==
    \E a, b \in FolderItems :
        /\ a <= b
        /\ Commit(delete_selected_items(State, IF a = b THEN <<a>> ELSE <<a, b>>),
                  "delete_selected_items", IF a = b THEN "one" ELSE "two",
                  IF a = b THEN <<a>> ELSE <<a, b>>)
        /\ UNCHANGED <<project, disk>>

MoveSelectedItems ==
    \E direction \in {-1, 1},
       item \in {n \in TreeNodes(table_tree) : Kind(n) \in {ITEM_FOLDER, ITEM_TABLE}} :
        /\ Commit(move_selected_items(State, direction, item), "move_selected_items",
                  IF Moves(table_tree, direction, item) THEN "moved" ELSE "stuck", <<>>)
        /\ UNCHANGED <<project, disk>>

DropIndicators == {"OnItem", "AboveItem", "BelowItem", "OnViewport"}

DropEvent ==
    \E dragged \in {n \in TreeNodes(table_tree) : IsDragEnabled(table_tree, n)},
       target_item \in TreeNodes(table_tree) \cup {NoNode},
       indicator \in DropIndicators :
        /\ target_item # dragged
        /\ (indicator = "OnViewport") = (target_item = NoNode)
        /\ indicator = "OnItem" => IsDropEnabled(target_item)
        /\ Commit(dropEvent(State, target_item, dragged, indicator), "dropEvent",
                  IF _validate_tree_drop(table_tree, target_item, dragged, indicator)
                  THEN "moved" ELSE "ignored", <<>>)
        /\ UNCHANGED <<project, disk>>

\* sorting that also writes the sorted layout to the files
SortFoldersAndTables_mutC2 ==
    /\ Commit(sort_folders_and_tables(State), "sort_folders_and_tables",
              IF table_tree.top = <<>> THEN "empty" ELSE "sorted", <<>>)
    /\ disk' = save_changes(sort_folders_and_tables(State), disk, project, TRUE, "none").disk
    /\ UNCHANGED project

SortFoldersAndTables ==
    /\ Commit(sort_folders_and_tables(State), "sort_folders_and_tables",
              IF table_tree.top = <<>> THEN "empty" ELSE "sorted", <<>>)
    /\ UNCHANGED <<project, disk>>

\* the tables whose measures and details are edited
MeasureTables == {"Sales"}
EditedTables == {"Dates"}

CreateNewMeasure ==
    \E parent_item \in {n \in TreeNodes(table_tree) :
                          /\ Kind(n) \in {ITEM_TABLE, ITEM_MEASURE_FOLDER}
                          /\ table_tree.user[n] \in MeasureTables} :
        /\ MeasureNodes \ TreeNodes(table_tree) # {}
        /\ Commit(create_new_measure(State, parent_item), "create_new_measure", "none", <<>>)
        /\ UNCHANGED <<project, disk>>

CreateNewMeasureFolder ==
    \E parent_item \in {n \in TreeNodes(table_tree) :
                          Kind(n) = ITEM_TABLE /\ table_tree.user[n] \in MeasureTables} :
        /\ MeasureFolderNodes \ TreeNodes(table_tree) # {}
        /\ Commit(create_new_measure_folder(State, parent_item), "create_new_measure_folder",
                  "none", <<>>)
        /\ UNCHANGED <<project, disk>>

OnQueryTextChanged ==
    \E current_table \in EditedTables \cap DOMAIN tables_data :
        /\ _find_table_item(table_tree, current_table) # NoNode
        /\ Commit(on_query_text_changed(State, current_table, 1), "on_query_text_changed", "none",
                  <<>>)
        /\ UNCHANGED <<project, disk>>

OnImportModeChanged ==
    \E current_table \in EditedTables \cap DOMAIN tables_data :
        /\ _find_table_item(table_tree, current_table) # NoNode
        /\ Commit(on_import_mode_changed(State, current_table, "directquery"),
                  "on_import_mode_changed", "none", <<>>)
        /\ UNCHANGED <<project, disk>>

\* the inline editor on a measure folder
RenameMeasureFolder ==
    \E item \in {n \in TreeNodes(table_tree) : Kind(n) = ITEM_MEASURE_FOLDER},
       new_name \in TypedNames :
        /\ Commit(on_tree_item_changed_measure_folder(State, item, new_name),
                  "rename_measure_folder",
                  MeasureFolderRenameBranch(table_tree, item, new_name), <<item>>)
        /\ UNCHANGED <<project, disk>>

\* the inline editor on a measure
RenameMeasure ==
    \E item \in {n \in TreeNodes(table_tree) : Kind(n) = ITEM_MEASURE},
       new_name \in TypedNames :
        /\ Commit(on_tree_item_changed_measure(State, item, new_name), "rename_measure",
                  MeasureRenameBranch(table_tree, tables_data, item, new_name), <<item>>)
        /\ UNCHANGED <<project, disk>>

\* Delete with one measure or one measure folder selected
DeleteSelectedMeasures ==
    \E item \in {n \in TreeNodes(table_tree) :
                    Kind(n) \in {ITEM_MEASURE, ITEM_MEASURE_FOLDER}} :
        /\ Commit(delete_selected_items(State, <<item>>), "delete_selected_items", "one",
                  <<item>>)
        /\ UNCHANGED <<project, disk>>

Next ==
    \/ ChoosePbipFile
    \/ RefreshTables
    \/ SaveChanges
    \/ CreateNewFolder
    \/ RenameFolder
    \/ DeleteSelectedItems
    \/ MoveSelectedItems
    \/ DropEvent
    \/ SortFoldersAndTables
    \/ CreateNewMeasure
    \/ CreateNewMeasureFolder
    \/ OnQueryTextChanged
    \/ OnImportModeChanged

Spec == Init /\ [][Next]_vars

\* ------------------------------------------------- editing the measures
\* The tab with the project DiskMeasures on disk, and the handlers that work
\* on measures and measure folders.
InitMeasures ==
    /\ table_tree = EmptyTree
    /\ tables_data = EmptyTables
    /\ query_order = <<>>
    /\ query_groups = EmptyGroups
    /\ is_dirty = FALSE
    /\ project = NoProject
    /\ disk = DiskMeasures
    /\ steps = 0
    /\ last = [op |-> "init", arg |-> "none", sel |-> <<>>]
    /\ dax = DaxInit
    /\ chat = ChatInit

NextMeasures ==
    \/ ChoosePbipFile
    \/ SaveChanges
    \/ CreateNewMeasure
    \/ CreateNewMeasureFolder
    \/ RenameMeasureFolder
    \/ RenameMeasure
    \/ DeleteSelectedMeasures
    \/ DropEvent

SpecMeasures == InitMeasures /\ [][NextMeasures]_vars

\* ------------------------------------------------- the text of the files
\* Projects whose files spell things in the ways the two parsers accept.
\* A table whose name has brackets in it, listed first in PBI_QueryOrder
DiskBrackets ==
    [model |-> <<OtherLine, QueryOrderLine("", <<"Sales [EU]", "Dates">>)>>,
     tables |-> [t \in {"Dates", "Sales [EU]"} |->
                   [table_type |-> "m",
                    lines |-> PartitionLines(<<>>),
                    measures |-> <<>>]]]
\* The group B written without quotes in a file with CRLF line endings, its
\* block in model.tmdl with the keywords in lower case
DiskSpelling ==
    [model |-> <<OtherLine,
                 QueryGroupBlock("querygroup", NameToken("", "/", <<"B">>), 0),
                 QueryOrderLine("", <<"Sales", "Dates">>)>>,
     tables |-> [t \in {"Dates", "Sales"} |->
                   [table_type |-> "m",
                    lines |-> IF t = "Sales"
                              THEN <<TextLine(CRLF), ModeLine(CRLF),
                                     QueryGroupLine(NameToken("", "/", <<"B">>), CRLF),
                                     TextLine(CRLF)>>
                              ELSE <<TextLine(CRLF), ModeLine(CRLF), TextLine(CRLF)>>,
                    measures |-> <<>>]]]
\* The nested group A\Year's end, written with a backslash in the file of
\* Sales and with a blank line after the queryGroup line; model.tmdl has the
\* block of A between blank lines and the PBI_QueryOrder annotation indented
DiskNested ==
    [model |-> <<OtherLine,
                 WhiteLine(""),
                 QueryGroupBlock("queryGroup", NameToken("", "/", <<"A">>), 0),
                 WhiteLine(""),
                 QueryOrderLine(TAB, <<"Sales", "Dates">>),
                 WhiteLine(""),
                 OtherLine>>,
     tables |-> [t \in {"Dates", "Sales"} |->
                   [table_type |-> "m",
                    lines |-> IF t = "Sales"
                              THEN <<TextLine(LF), ModeLine(LF),
                                     QueryGroupLine(NameToken("'", "\\", <<"A", "Year's end">>), LF),
                                     BlankLine(LF), TextLine(LF)>>
                              ELSE PartitionLines(<<>>),
                    measures |-> <<>>]]]
\* model.tmdl without a PBI_QueryOrder annotation
DiskNoOrder ==
    [model |-> <<OtherLine>>,
     tables |-> [t \in {"Dates", "Sales"} |->
                   [table_type |-> "m",
                    lines |-> PartitionLines(<<>>),
                    measures |-> <<>>]]]
\* PBI_QueryOrder = [{{}}]: a list that is no list of names
DiskMalformed ==
    [model |-> <<OtherLine, QueryOrderLine("", <<"{{}}">>)>>,
     tables |-> [t \in {"Dates", "Sales"} |->
                   [table_type |-> "m",
                    lines |-> PartitionLines(<<>>),
                    measures |-> <<>>]]]
TextDisks == {DiskBrackets, DiskSpelling, DiskNested, DiskNoOrder, DiskMalformed}

InitText ==
    /\ table_tree = EmptyTree
    /\ tables_data = EmptyTables
    /\ query_order = <<>>
    /\ query_groups = EmptyGroups
    /\ is_dirty = FALSE
    /\ project = NoProject
    /\ disk \in TextDisks
    /\ steps = 0
    /\ last = [op |-> "init", arg |-> "none", sel |-> <<>>]
    /\ dax = DaxInit
    /\ chat = ChatInit

NextText ==
    \/ ChoosePbipFile
    \/ SaveChanges
    \/ CreateNewFolder
    \/ DeleteSelectedItems
    \/ MoveSelectedItems
    \/ DropEvent

SpecText == InitText /\ [][NextText]_vars

\* ------------------------------------------------- the chat assistant
\* The tab with DiskProject on disk and the DAX Writer panel in use: the
\* prompt, the Generate button, the worker of the thread pool and the two
\* queued signals; beside it the requests of the DAX Writer tab.
Tab == [st |-> State, dax |-> dax]

\* the result of a handler of the panel becomes the tab's state
CommitDax(tab, op, arg) ==
    /\ table_tree' = tab.st.tree
    /\ tables_data' = tab.st.tables_data
    /\ query_order' = tab.st.query_order
    /\ query_groups' = tab.st.query_groups
    /\ is_dirty' = tab.st.is_dirty
    /\ dax' = tab.dax
    /\ last' = [op |-> op, arg |-> arg, sel |-> <<>>]
    /\ UNCHANGED <<project, disk>>

\* the user edits the prompt; the editor is disabled during a request
OnDaxPromptChanged ==
    \E prompt \in Prompts :
        /\ steps < MaxSteps
        /\ ~dax.busy
        /\ prompt # dax.prompt
        /\ CommitDax([Tab EXCEPT !.dax.prompt = prompt], "dax_prompt_changed", "none")
        /\ steps' = steps + 1
        /\ UNCHANGED chat

\* the Generate button or Ctrl+Enter in the prompt
GenerateDaxMeasure ==
    LET r == generate_dax_measure(Tab, project.open)
    IN /\ steps < MaxSteps
       /\ CommitDax(r.tab, "generate_dax_measure", IF r.started THEN "started" ELSE "none")
       /\ steps' = steps + 1
       /\ chat' = IF r.started
                  THEN [chat EXCEPT !.worker = "queued", !.started = @ + 1]
                  ELSE chat

\* the thread pool runs the worker: generate, then one of the two signals
WorkerRun ==
    \E script \in Scripts :
        LET result == generate(chat.config, script)
        IN /\ chat.worker = "queued"
           /\ chat' = [chat EXCEPT !.worker = "idle", !.signal = run(result),
                                   !.config = result.config, !.trace = result.trace]
           /\ UNCHANGED <<table_tree, tables_data, query_order, query_groups, is_dirty,
                          project, disk, steps, last, dax>>

\* the event loop of the UI thread delivers the queued signal
OnDaxGenerationSuccess ==
    /\ chat.signal = "finished"
    /\ CommitDax(_on_dax_generation_success(Tab), "_on_dax_generation_success", "none")
    /\ chat' = [chat EXCEPT !.signal = "none", !.callbacks = @ + 1]
    /\ UNCHANGED steps

OnDaxGenerationError ==
    /\ chat.signal = "error"
    /\ CommitDax(_on_dax_generation_error(Tab), "_on_dax_generation_error", "none")
    /\ chat' = [chat EXCEPT !.signal = "none", !.callbacks = @ + 1]
    /\ UNCHANGED steps

\* a request of the DAX Writer tab, from its worker's run to the signal
DaxWriterRequest ==
    \E script \in Scripts :
        LET result == dax_writer_generate(chat.writer_config, script)
        IN /\ steps < MaxSteps
           /\ chat' = [chat EXCEPT !.writer_config = result.config,
                                   !.writer_trace = result.trace]
           /\ steps' = steps + 1
           /\ last' = [op |-> "generate_measure", arg |-> run(result), sel |-> <<>>]
           /\ UNCHANGED <<table_tree, tables_data, query_order, query_groups, is_dirty,
                          project, disk, dax>>

InitDax ==
    /\ table_tree = EmptyTree
    /\ tables_data = EmptyTables
    /\ query_order = <<>>
    /\ query_groups = EmptyGroups
    /\ is_dirty = FALSE
    /\ project = NoProject
    /\ disk = DiskProject
    /\ steps = 0
    /\ last = [op |-> "init", arg |-> "none", sel |-> <<>>]
    /\ dax = DaxInit
    /\ chat = ChatInit

NextDax ==
    \/ ChoosePbipFile
    \/ CreateNewFolder
    \/ OnDaxPromptChanged
    \/ GenerateDaxMeasure
    \/ WorkerRun
    \/ OnDaxGenerationSuccess
    \/ OnDaxGenerationError
    \/ DaxWriterRequest

SpecDax == InitDax /\ [][NextDax]_vars

\* The thread pool runs a queued worker, every call of the client ends (each
\* has a timeout), and the event loop delivers a queued signal.
SpecDaxFair ==
    /\ SpecDax
    /\ WF_vars(WorkerRun)
    /\ WF_vars(OnDaxGenerationSuccess)
    /\ WF_vars(OnDaxGenerationError)

\* ================================================================ claims
\* the table items of a tree
ShownTables(tr) == TableNodes \cap TreeNodes(tr)

\* the names of the folders from the top level down to folder f, joined
RECURSIVE NamePath(_, _)
NamePath(tr, f) ==
    IF f = NoNode THEN <<>> ELSE NamePath(tr, ParentOf(tr, f)) \o tr.text[f]

\* the names of the PBI_QueryOrder list of a model.tmdl text as the file
\* spells them, and the paths its queryGroup blocks name, in file order
QueryOrderList(model_text) ==
    LET found == LinesOf(model_text, "PBI_QueryOrder")
    IN IF found = <<>> THEN <<>> ELSE model_text[found[1]].names
QueryGroupPaths(model_text) ==
    LET found == LinesOf(model_text, "queryGroup")
    IN [i \in 1..Len(found) |-> _normalize_group_path(model_text[found[i]].name)]

\* the handler of the step has run on_tree_structure_changed
Reconciled(l) ==
    \/ l.op = "dropEvent" /\ l.arg = "moved"
    \/ l.op = "move_selected_items" /\ l.arg = "moved"
    \/ l.op = "sort_folders_and_tables" /\ l.arg = "sorted"
    \/ l.op = "rename_folder" /\ l.arg = "renamed"
    \/ l.op = "create_new_folder"
    \/ l.op = "delete_selected_items"
          /\ \E f \in Range(l.sel) : Kind(f) = ITEM_FOLDER /\ f # OtherNode

\* C1: deleting folders removes no table from the tree, and every table that
\* was in a deleted named folder, directly or in a sub-folder of it, is
\* afterwards a child of Other Queries with its query group unset.
C1_DeleteKeepsTables ==
    [][last'.op = "delete_selected_items" =>
        LET deleted == {f \in Range(last'.sel) : ~KeyIsNone(table_tree, f)}
            inside == {t \in ShownTables(table_tree) :
                         \E f \in deleted : t \in Subtree(table_tree, f)}
        IN /\ ShownTables(table_tree') = ShownTables(table_tree)
           /\ \A t \in inside :
                 /\ ParentOf(table_tree', t) = OtherNode
                 /\ tables_data'[TableOfItem(t)].query_group = <<>>]_vars

C3_FailedLoadKeepsState ==
    [][(last'.op \in {"choose_pbip_file", "refresh_tables"} /\ last'.arg = "error") =>
        UNCHANGED <<table_tree, tables_data, query_order, query_groups, is_dirty>>]_vars

\* C4: when writing model.tmdl or one table file fails during save, every
\* other table file is still written as a save without failure writes it.
C4_SaveContinuesAfterFailure ==
    [][(last'.op = "save_changes" /\ last'.arg \in {"model"} \cup TableSet) =>
        \A t \in DOMAIN disk.tables \ {last'.arg} :
            disk'.tables[t] = save_changes(State, disk, project, TRUE, "none").disk.tables[t]]_vars

\* C5: the query order in memory names no calculated table, and neither does
\* the PBI_QueryOrder list that a save has written.
C5_NoCalculatedInOrder ==
    [][/\ \A i \in 1..Len(query_order') :
             query_order'[i] \in DOMAIN tables_data'
                => tables_data'[query_order'[i]].table_type # "calculated"
       /\ (last'.op = "save_changes" /\ disk'.model # disk.model) =>
             \A i \in 1..Len(QueryOrderList(disk'.model)) :
                 QueryOrderList(disk'.model)[i] \in DOMAIN tables_data'
                    => tables_data'[QueryOrderList(disk'.model)[i]].table_type
                          # "calculated"]_vars

\* C5 witness: a save has written the order of a project whose calculated
\* table is shown in the tree
C5_SavedWithCalculatedShown ==
    /\ last.op = "save_changes" /\ last.arg = "ok"
    /\ "Calc" \in DOMAIN tables_data
    /\ tables_data["Calc"].table_type = "calculated"
    /\ TableNode("Calc") \in TreeNodes(table_tree)
    /\ query_order # <<>>
    /\ QueryOrderList(disk.model) = query_order
    /\ disk.model # DiskProject.model

\* the parents the hierarchy rule permits for an item of each kind
PermittedParents(k) ==
    CASE k = "folder" -> {"none", "folder"}
      [] k = "table" -> {"folder"}
      [] k = "column" -> {"table"}
      [] k = "measure_folder" -> {"table", "measure_folder"}
      [] k = "measure" -> {"table", "measure_folder"}

\* C6: every item of the tree has a parent of a permitted kind: a folder is
\* at top level or in a folder, a table in a folder, a column in a table, a
\* measure folder and a measure in a table or a measure folder.
C6_PermittedParents ==
    \A n \in TreeNodes(table_tree) :
        Kind(ParentOf(table_tree, n)) \in PermittedParents(Kind(n))

\* C6 witness: a drop has moved a table into another folder, in a tree that
\* holds a measure
C6_TableDropped ==
    /\ last.op = "dropEvent" /\ last.arg = "moved"
    /\ TableNode("Dates") \in TreeNodes(table_tree)
    /\ ParentOf(table_tree, TableNode("Dates")) # OtherNode
    /\ MeasureNodes \cap TreeNodes(table_tree) # {}

\* C7: after a structural edit the query group of every table in the tree is
\* the slash-joined path of the folder names from the top level down to the
\* table's folder, and is unset exactly when the table is in Other Queries.
C7_GroupIsFolderPath ==
    [][Reconciled(last') =>
        \A t \in ShownTables(table_tree') :
            LET folder == ParentOf(table_tree', t)
                group == tables_data'[TableOfItem(t)].query_group
            IN IF folder = OtherNode THEN group = <<>>
               ELSE group # <<>> /\ group = NamePath(table_tree', folder)]_vars

\* Other Queries is the last top-level item, under its own name and without
\* a key, and every other top-level item is a named folder
OtherQueriesLast ==
    /\ table_tree.top # <<>>
    /\ Last(table_tree.top) = OtherNode
    /\ table_tree.text[OtherNode] = <<OTHER_QUERIES_NAME>>
    /\ table_tree.key[OtherNode] = <<>>
    /\ \A i \in 1..(Len(table_tree.top) - 1) : table_tree.key[table_tree.top[i]] # <<>>

NamedPathsOnly(tr, paths) ==
    \A p \in paths :
        \E f \in TreeNodes(tr) \ {OtherNode} : Kind(f) = ITEM_FOLDER /\ tr.key[f] = p

\* C9: the query groups in memory and the queryGroup blocks a save writes
\* hold no entry for Other Queries: no entry has the empty path, and when
\* they are computed from the tree every entry is the path of a folder item
\* other than the Other Queries item.
C9_NoOtherQueriesGroup ==
    [][/\ <<>> \notin DOMAIN query_groups'
       /\ (Reconciled(last') \/ (last'.op = "save_changes" /\ last'.arg # "missing")) =>
             NamedPathsOnly(table_tree', DOMAIN query_groups')
       /\ (last'.op = "save_changes" /\ disk'.model # disk.model) =>
             \A i \in 1..Len(QueryGroupPaths(disk'.model)) :
                 /\ QueryGroupPaths(disk'.model)[i] # <<>>
                 /\ NamedPathsOnly(table_tree', {QueryGroupPaths(disk'.model)[i]})]_vars

\* C9 witness: a save has written the groups of a tree whose Other Queries
\* folder holds a table
C9_SavedWithOtherQueries ==
    /\ last.op = "save_changes" /\ last.arg = "ok"
    /\ OtherNode \in TreeNodes(table_tree)
    /\ ShownTables(table_tree) \cap Range(table_tree.kids[OtherNode]) # {}
    /\ DOMAIN query_groups # {}
    /\ disk.model # DiskProject.model

\* C10: a structure change that leaves the query order, the query groups,
\* the group of every table and the measures as they were does not set the
\* dirty flag.
C10_NoChangeNotDirty ==
    [][(/\ Reconciled(last')
        /\ ~is_dirty
        /\ query_order' = query_order
        /\ query_groups' = query_groups
        /\ DOMAIN tables_data' = DOMAIN tables_data
        /\ \A t \in DOMAIN tables_data :
              /\ tables_data'[t].query_group = tables_data[t].query_group
              /\ tables_data'[t].measures = tables_data[t].measures)
       => ~is_dirty']_vars

\* C11: dropping a table onto another table puts the dragged table into the
\* target's parent folder as a sibling of the target, and never below the
\* target table.
C11_TableOnTableInserts ==
    \A dragged, target_item \in ShownTables(table_tree) :
        dragged # target_item =>
            LET after == dropEvent(State, target_item, dragged, "OnItem").tree
            IN /\ ParentOf(after, dragged) = ParentOf(table_tree, target_item)
               /\ dragged \notin Subtree(after, target_item)

\* the folder item whose name the step has changed
RenamedFolder(tr, tr2) ==
    Pick({f \in TreeNodes(tr) : Kind(f) = ITEM_FOLDER /\ tr2.text[f] # tr.text[f]})

\* path with its prefix P replaced by P2
Reprefixed(path, P, P2) == P2 \o SubSeq(path, Len(P) + 1, Len(path))

\* C12: after an accepted rename of a folder with path P to the path P2,
\* every folder below it has P2 in place of P at the front of its path, every
\* table below it has its query group changed in the same way, and the
\* query groups hold no path that is P or starts with P/.
C12_RenameRewritesPrefix ==
    [][(last'.op = "rename_folder" /\ last'.arg = "renamed") =>
        LET f == RenamedFolder(table_tree, table_tree')
            P == table_tree.key[f]
            P2 == SubSeq(P, 1, Len(P) - 1) \o table_tree'.text[f]
        IN /\ \A d \in Subtree(table_tree, f) :
                 Kind(d) = ITEM_FOLDER =>
                    table_tree'.key[d] = Reprefixed(table_tree.key[d], P, P2)
           /\ \A t \in ShownTables(table_tree) \cap Subtree(table_tree, f) :
                 tables_data'[TableOfItem(t)].query_group =
                    Reprefixed(tables_data[TableOfItem(t)].query_group, P, P2)
           /\ \A p \in DOMAIN query_groups' : ~IsPrefix(P, p)]_vars

\* the names of the measure folders above item n, outermost first
RECURSIVE AncestorFolderNames(_, _)
AncestorFolderNames(tr, n) ==
    IF Kind(ParentOf(tr, n)) # ITEM_MEASURE_FOLDER THEN <<>>
    ELSE Append(AncestorFolderNames(tr, ParentOf(tr, n)), tr.text[ParentOf(tr, n)])

\* the names joined, with the delimiter " / " between two names
RECURSIVE SlashJoined(_)
SlashJoined(names) ==
    IF names = <<>> THEN <<>>
    ELSE IF Len(names) = 1 THEN names[1]
    ELSE names[1] \o <<" / ">> \o SlashJoined(Tail(names))

\* the handler of the step has rebuilt the measures from the tree
MeasuresSynced(l) ==
    \/ Reconciled(l)
    \/ l.op = "rename_measure_folder" /\ l.arg = "renamed"

NameTaken(tr, td, item, new_name) ==
    IF Kind(item) = ITEM_MEASURE
    THEN /\ tr.user[item] \in DOMAIN td
         /\ \E m \in Range(td[tr.user[item]].measures) :
               m.id # item /\ lower(m.name) = lower(new_name)
    ELSE \E sibling \in Range(ChildrenOf(tr, ParentOf(tr, item))) \ {item} :
            Kind(sibling) = Kind(item) /\ lower(tr.text[sibling]) = lower(new_name)

\* on_tree_item_changed for an item of any of the three kinds
Renamed(st, item, new_name) ==
    CASE Kind(item) = ITEM_FOLDER -> on_tree_item_changed_folder(st, item, new_name)
      [] Kind(item) = ITEM_MEASURE_FOLDER ->
            on_tree_item_changed_measure_folder(st, item, new_name)
      [] OTHER -> on_tree_item_changed_measure(st, item, new_name)

\* C14: typing into a folder, a measure folder or a measure a name that is
\* taken, ignoring case, by a folder next to it or by another measure of the
\* table changes nothing: the item shows the name it had, and the paths, the
\* tables, the measures and the dirty flag are as before.
C14_TakenNameRejected ==
    \A item \in {n \in TreeNodes(table_tree) \ {OtherNode} :
                    Kind(n) \in {ITEM_FOLDER, ITEM_MEASURE_FOLDER, ITEM_MEASURE}} :
        \A new_name \in TypedNames \ {<<>>} :
            NameTaken(table_tree, tables_data, item, new_name) =>
                Renamed(State, item, new_name) = State

\* C15: whatever measures have been created, renamed, deleted and dragged,
\* also from one table to another, no table has two measures whose names are
\* equal ignoring case.
C15_UniqueMeasureNames ==
    \A t \in DOMAIN tables_data :
        \A i, j \in 1..Len(tables_data[t].measures) :
            i # j => lower(tables_data[t].measures[i].name)
                        # lower(tables_data[t].measures[j].name)

\* C16: after a save that went through, parsing the query order from
\* model.tmdl returns the table order the save collected from the tree: the
\* same names in the same order.
C16_OrderRoundTrip ==
    [][(last'.op = "save_changes" /\ last'.arg = "ok") =>
          _parse_query_order(disk'.model) = query_order']_vars

\* C17: after a save that went through, parsing the query groups from
\* model.tmdl yields the folder paths the save collected from the tree, each
\* with its index in that list, whatever blocks the text had before.
C17_GroupsRoundTrip ==
    [][(last'.op = "save_changes" /\ last'.arg = "ok") =>
          _parse_query_groups(disk'.model) = query_groups']_vars

\* C18: right after a project has been loaded, a save writes every table
\* file back as it was: the lines and the measure blocks of each file are
\* the ones that were read.
C18_LoadSaveIdentical ==
    (last.op = "choose_pbip_file" /\ last.arg = "ok") =>
        save_changes(State, disk, project, TRUE, "none").disk.tables = disk.tables

\* the tables of td that are not calculated and stand in both lists, in the
\* order the list names has them
NonCalculatedIn(names, other, td) ==
    SelectSeq(names, LAMBDA t : /\ t \in DOMAIN td
                                /\ td[t].table_type # "calculated"
                                /\ t \in Range(other))

\* C19: right after a project has been loaded, a save writes a
\* PBI_QueryOrder list that has the tables that are not calculated in the
\* relative order of the list that was on disk.
C19_SaveKeepsOrder ==
    (last.op = "choose_pbip_file" /\ last.arg = "ok") =>
        LET before == QueryOrderList(disk.model)
            after == QueryOrderList(
                         save_changes(State, disk, project, TRUE, "none").disk.model)
        IN NonCalculatedIn(after, before, tables_data)
              = NonCalculatedIn(before, after, tables_data)

\* the group paths _update_table_definition is tried with; <<>> is None
GroupPathsTried == {<<>>, <<"A">>, <<"A", "B">>}
\* the lines of a file other than its first queryGroup line
OtherLines(lines) ==
    LET query_idx == LinesOf(lines, "queryGroup")
    IN IF query_idx = <<>> THEN lines
       ELSE SubSeq(lines, 1, query_idx[1] - 1) \o SubSeq(lines, query_idx[1] + 1, Len(lines))

\* C20: when _update_table_definition rewrites or removes the queryGroup
\* line of a table file, the other lines of the file are afterwards what
\* they were: same content, same order, same line endings, none added and
\* none removed.
C20_OtherLinesKept ==
    \A t \in DOMAIN disk.tables :
        \A group_path \in GroupPathsTried :
            LinesOf(disk.tables[t].lines, "queryGroup") # <<>> =>
                OtherLines(_update_table_definition(disk.tables[t], group_path).lines)
                   = OtherLines(disk.tables[t].lines)

\* C21: for a table file with a mode: line and no queryGroup line, writing
\* the group path P puts exactly one new line queryGroup: 'P' right after the
\* mode: line, ended as the lines of the file are ended, and leaves the
\* lines before and after it as they were.
C21_InsertAfterMode ==
    \A t \in DOMAIN disk.tables :
        \A P \in GroupPathsTried \ {<<>>} :
            LET lines == disk.tables[t].lines
                mode == LinesOf(lines, "mode")
                new == _update_table_definition(disk.tables[t], P).lines
            IN (mode # <<>> /\ LinesOf(lines, "queryGroup") = <<>>) =>
                  /\ Len(new) = Len(lines) + 1
                  /\ new[mode[1] + 1].line = "queryGroup"
                  /\ new[mode[1] + 1].name = Quoted(P)
                  /\ \A i \in 1..Len(lines) : lines[i].eol = new[mode[1] + 1].eol
                  /\ SubSeq(new, 1, mode[1]) = SubSeq(lines, 1, mode[1])
                  /\ SubSeq(new, mode[1] + 2, Len(new))
                        = SubSeq(lines, mode[1] + 1, Len(lines))

\* C21 witness: a save has put a queryGroup line into the file of Dates, a
\* file with CRLF line endings that had none
C21_InsertedInCRLFFile ==
    /\ last.op = "save_changes" /\ last.arg = "ok"
    /\ "Dates" \in DOMAIN disk.tables
    /\ disk.tables["Dates"].lines[1].eol = CRLF
    /\ LinesOf(disk.tables["Dates"].lines, "queryGroup") = <<3>>
    /\ disk.tables["Dates"].lines[3].eol = CRLF

\* the text of model.tmdl outside the queryGroup blocks and the list literal
\* of the PBI_QueryOrder annotation
OutsideOwned(model_text) ==
    LET kept == SelectSeq(model_text, LAMBDA l : l.line # "queryGroup")
    IN [i \in 1..Len(kept) |->
          IF kept[i].line = "PBI_QueryOrder" THEN [kept[i] EXCEPT !.names = <<>>]
          ELSE kept[i]]

\* C22: a save changes nothing of model.tmdl but the queryGroup blocks and
\* the list literal of the PBI_QueryOrder annotation: every other line, its
\* white space included, is afterwards what it was.
C22_OnlyOwnedRegions ==
    [][last'.op = "save_changes" =>
          OutsideOwned(disk'.model) = OutsideOwned(disk.model)]_vars

\* C23: when model.tmdl has no PBI_QueryOrder annotation, or the list of the
\* annotation is no valid list literal, a load of the readable files gets
\* the empty query order and goes on: the metadata carries no error and the
\* Power Query tab does not stop either.
C23_OrderParseTolerant ==
    LET found == LinesOf(disk.model, "PBI_QueryOrder")
    IN (found = <<>> \/ ~literal_eval(disk.model[Head(found)].names).ok) =>
          /\ ~_load_power_query_metadata(disk, TRUE).error
          /\ _load_power_query_metadata(disk, TRUE).query_order = <<>>
          /\ ~load_tables_query_order(disk.model).raised
          /\ load_tables_query_order(disk.model).query_order = <<>>

\* the chat requests among the calls of one generate
ChatCalls(trace) == SelectSeq(trace, LAMBDA c : c.call = "chat")
RetriedOnce(trace) ==
    LET chats == ChatCalls(trace)
    IN chats # <<>> =>
          IF chats[1].outcome \in {"401", "403"}
          THEN /\ Len(chats) = 2
               /\ \E i \in 1..Len(trace) : trace[i].call = "refresh" /\ trace[i].outcome = "200"
          ELSE Len(chats) = 1

\* C24: in the last request of either chat client, a chat request answered
\* 401 or 403 was followed by a refresh of the token and exactly one more
\* chat request, and a chat request that ended any other way was the only
\* one sent.
C24_AuthorizationRetriedOnce ==
    RetriedOnce(chat.trace) /\ RetriedOnce(chat.writer_trace)

\* C25: the steps of a request that fails (the worker's run that ends in the
\* error signal, and the callback of that signal) leave the tree, the
\* tables with their measures, the query order, the query groups, the dirty
\* flag, the project cache and the files as they were; the callback changes
\* the busy state, the status text and the dialog only.
C25_FailedRequestFrame ==
    [][(chat' # chat /\ (chat.signal = "error" \/ chat'.signal = "error")) =>
          /\ UNCHANGED <<table_tree, tables_data, query_order, query_groups, is_dirty,
                         project, disk>>
          /\ dax' \in {dax, [dax EXCEPT !.busy = FALSE, !.generate_enabled = TRUE,
                                         !.status = "Generation failed",
                                         !.dialog = "Generation Failed"]}]_vars
\* the error callback has run with tables loaded
C25_ErrorReported ==
    /\ last.op = "_on_dax_generation_error"
    /\ tables_data # EmptyTables
    /\ dax.dialog = "Generation Failed" /\ ~dax.busy

C26_GroupsSurviveReload ==
    LET saved == save_changes(State, disk, project, TRUE, "none")
        reloaded == _load_power_query_metadata(saved.disk, TRUE)
    IN (project.open /\ saved.ok) =>
          \A t \in DOMAIN saved.st.tables_data :
              /\ t \in DOMAIN reloaded.tables
              /\ reloaded.tables[t].query_group = saved.st.tables_data[t].query_group

\* how often a name occurs in a list
Occurrences(names, t) == Cardinality({i \in 1..Len(names) : names[i] = t})

\* C27: with a project loaded, whatever edits were made, every loaded table
\* that is not calculated occurs exactly once in the query order.
C27_OrderCoversTables ==
    project.open =>
        \A t \in DOMAIN tables_data :
            tables_data[t].table_type # "calculated" => Occurrences(query_order, t) = 1

C29_FolderPathsUnique ==
    LET folder_paths == _collect_tree_layout(table_tree, tables_data).folder_paths
    IN /\ \A f, g \in NamedFolders : f # g => table_tree.key[f] # table_tree.key[g]
       /\ \A i, j \in 1..Len(folder_paths) : i # j => folder_paths[i] # folder_paths[j]
====
